---------------------------- MODULE Spec2Model ----------------------------
(***************************************************************************)
(* Verification model of the backup-tools scripts.                         *)
(*                                                                         *)
(*   SpecRetention : select_best.py / select_best_del.py (retention step)  *)
(*   SpecIntegrity : check_integrity.py (duration and decode checks)       *)
(*   SpecSize      : check_size.py / size_check.py (size checks)           *)
(*   SpecEncode    : encoder.py, encode_video (one transcode job)          *)
(*   SpecPlan      : encoder.py, the ffmpeg options encode_video derives   *)
(*   SpecBatch     : encoder.py, main (the batch loop over several runs)   *)
(*   SpecResize    : photo_encoder.py, resize_image                        *)
(*   SpecProbe     : encoder.py, the ffprobe readers encode_video calls    *)
(*   SpecQuality   : check_quality.py (scores and their average)           *)
(*   SpecValidators: check_integrity.py, check_size.py, size_check.py      *)
(*   SpecImage     : photo_encoder.py, process_image                       *)
(*   SpecDate      : fix_date.py and its copies, set_video_date            *)
(*                                                                         *)
(* Each script is a sequential program; its position is a pc variable and  *)
(* every file-system call that the claims distinguish is one action.       *)
(***************************************************************************)
EXTENDS Integers, Sequences, FiniteSets, TLC

(***************************************************************************)
(* Bounds of the model.                                                    *)
(***************************************************************************)
\* File names of the retention step are clip.ext, clip_av1.ext,
\* clip_av1_av1.ext, ...: level k is the stem "clip" followed by k copies of
\* the suffix "_av1".  MaxLevel is the largest number of suffixes.
MaxLevel == 2
\* File sizes in bytes range over 1..MaxSize.
MaxSize == 2

\* A video lasts at most MaxDuration seconds, and ffmpeg reports out_time_ms
\* values of -1 .. MaxOutTime seconds.
MaxDuration == 2
MaxOutTime == 3
\* The count of printed status lines is capped at MaxStatusLines.
MaxStatusLines == 2
\* Source videos are at most MaxSide pixels wide and high (the --downscale
\* choices of the model are scaled down with them, see DownscaleChoices).
MaxSide == 6
\* Images are up to MaxOver pixels larger than each pixel ceiling.
MaxOver == 2
\* The input directory of encoder.py holds at most MaxBatch videos, and the
\* operator starts at most MaxRuns runs over it.
MaxBatch == 3
MaxRuns == 2
\* The date scripts fix at most MaxDated videos.
MaxDated == 3
\* photo_encoder.py processes at most MaxImages images.
MaxImages == 2
\* check_quality.py compares at most MaxCompared videos.
MaxCompared == 3
\* The validators see at most MaxVideos files in the secondary directory.
MaxVideos == 2
\* Durations are in tenths of a second and range over 120.0 s .. 120.0 s +
\* MaxDurDelta tenths.
MaxDurDelta == 6

Levels == 0..MaxLevel
Sizes == 1..MaxSize
Videos == 1..MaxVideos
\* st_size as the size checks read it (an empty file has size 0).
VSizes == 0..MaxSize
Durations == {1200 + i : i \in 0..MaxDurDelta}
OrigDurations == {1200, 1200 + MaxDurDelta}

\* Python's None for an optional number (size_orig, a duration).
None == 0 - 1

\* No command: encode_video has not been called before.
NoCmd == [library |-> "", crf |-> "", preset |-> "", vf |-> None, r |-> None,
          ab |-> None]

(***************************************************************************)
(* State of the retention scripts.                                         *)
(***************************************************************************)
VARIABLES
    rscript,      \* which script the operator launched
    fs,           \* the three directories: fs[dir][level] is a file or NoFile
    vid_is_dir,   \* vid_dir.is_dir()
    validated,    \* candidates whose check_integrity iteration has completed
    rpc,          \* position in main()
    av1_files,    \* sorted list of the candidates found in vid_av1/
    idx,          \* loop index (1-based, enumerate(..., start=1))
    av1,          \* candidate of the current iteration
    orig,         \* original derived from the candidate of this iteration
    size_av1,     \* av1.stat().st_size
    size_orig     \* orig.stat().st_size, or None

rvars == <<rscript, fs, vid_is_dir, validated, rpc, av1_files, idx, av1, orig,
           size_av1, size_orig>>

(***************************************************************************)
(* State of the validators (check_integrity, check_size, size_check).      *)
(***************************************************************************)
VARIABLES
    vscript,         \* which validator the operator launched
    mode,            \* args.mode of check_integrity
    delete,          \* the delete flag (args.delete == "true" / "del")
    dirs_exist,      \* both directories exist
    secondary,       \* secondary directory: number of the video -> its suffix
                     \* ("" , "_av1", "_hevc"), or "absent" once deleted
    base_ext,        \* base directory: number of the video -> extension of
                     \* the original "<stem>.<ext>", or "none"
    vpc,             \* position in main()
    coded_videos,    \* sorted list of the files of the secondary directory
    vidx,            \* loop index
    vids_To_Delete,  \* list of the videos that did not pass
    vid,             \* video of the current iteration
    vid_decodable,   \* whether ffmpeg decodes vid without error
    orig_found,      \* orig.exists() after the extension fallbacks
    dur_secondary,   \* get_duration(vid)
    dur_original,    \* get_duration(orig)
    ok_decode,       \* result of validate_decode(vid), "unset" before it ran
    orig_stem,       \* size_check: the stem the original is looked up by
    size_sec,        \* vid.stat().st_size
    vsize_orig,      \* orig.stat().st_size or None
    size_margin,     \* check_size: margin, size_check: margin_pct (percent)
    all_original_size,    \* sum of the sizes of the originals compared so far
    diff_percentage_set,  \* size_check: diff_percentage has been assigned
    confirm,         \* the answer after strip().lower(), "unasked" before
    answer           \* what the operator typed at the prompt, "unasked" before

vvars == <<vscript, mode, delete, dirs_exist, secondary, base_ext, vpc,
           coded_videos, vidx, vids_To_Delete, vid, vid_decodable, orig_found,
           dur_secondary, dur_original, ok_decode, orig_stem, size_sec,
           vsize_orig, size_margin, all_original_size, diff_percentage_set,
           confirm, answer>>

(***************************************************************************)
(* State of one transcode job (encoder.py, encode_video).                  *)
(***************************************************************************)
VARIABLES
    epc,          \* position in encode_video
    proc,         \* the ffmpeg child: "none", "running" or "exited"
    returncode,   \* proc.returncode once the child has exited, else None
    out_file,     \* the file at out_file: "absent", "partial" or "complete"
    duration,     \* get_duration(vid) in seconds, 0 when unknown
    fps,          \* last fps shown, in tenths
    bitrate,      \* last bitrate shown (the value after "bitrate=")
    pct_num,      \* last percent shown, as a numerator over `duration`
    status_lines, \* number of progress status lines printed (capped)
    result,       \* "none", "ok" ([OK] printed) or "error" ([ERROR] printed)
    cancelled,    \* the job was interrupted (KeyboardInterrupt)
    final_pct     \* the percent of the final status line, None before it

evars == <<epc, proc, returncode, out_file, duration, fps, bitrate, pct_num,
           status_lines, result, cancelled, final_pct>>

(***************************************************************************)
(* State of the command construction of one transcode job (encoder.py,     *)
(* encode_video lines 195-233 and the probes it calls).                    *)
(***************************************************************************)
VARIABLES
    ppc,            \* position in the command construction
    fr_text,        \* what ffprobe prints for avg_frame_rate
    input_fps,      \* get_frame_rate(vid), a fraction [num, den]
    width,          \* source width
    height,         \* source height
    downscale,      \* the --downscale resolution
    res,            \* get_new_resolution(vid, downscale)
    new_width,      \* the scaled width get_new_resolution prints
    new_height,     \* the scaled height get_new_resolution prints
    cmd_r,          \* the value after -r in cmd, None when absent
    orig_bitrate,   \* source audio bitrate in kbps, 0 when unknown
    audio_bitrate,  \* the --audiobitrate cap in kbps
    ab,             \* the value after -b:a in cmd, in kbps
    out_w,          \* width the scale filter of cmd produces
    out_h,          \* height the scale filter of cmd produces
    policy,         \* the library, crf and preset arguments
    float_low,      \* whether the floating-point products of get_new_resolution
                    \* fall just below an integral exact value (width, height)
    first_cmd       \* the command an earlier call built from the same inputs

pvars == <<ppc, fr_text, input_fps, width, height, downscale, res, new_width,
           new_height, cmd_r, orig_bitrate, audio_bitrate, ab, out_w, out_h,
           policy, float_low, first_cmd>>

(***************************************************************************)
(* State of one image resize (photo_encoder.py, resize_image).             *)
(***************************************************************************)
VARIABLES
    ipc,         \* position in resize_image
    img_w,       \* w of img.size
    img_h,       \* h of img.size
    megapixels,  \* the --downscale megapixel target
    max_dim,     \* the pixel ceiling of the chosen library
    new_w,       \* the derived width
    new_h        \* the derived height

ivars == <<ipc, img_w, img_h, megapixels, max_dim, new_w, new_h>>

(***************************************************************************)
(* State of the batch loop of encoder.py, main(), over successive runs.    *)
(***************************************************************************)
VARIABLES
    bpc,          \* position in main
    base_is_dir,  \* base_dir.is_dir()
    videos,       \* the sorted list of eligible videos of this run
    bidx,         \* index of the for loop
    outs,         \* per video, the file at out_file: "absent", "partial", "complete"
    skipped,      \* videos this run skipped as already encoded
    failed,       \* videos whose encode_video call did not return in this run
    exit_code,    \* exit code of the process, None while it runs
    runs          \* number of runs started

bvars == <<bpc, base_is_dir, videos, bidx, outs, skipped, failed, exit_code, runs>>

(***************************************************************************)
(* State of the probes of one video (encoder.py, get_duration,             *)
(* get_frame_rate and get_video_audio_info as encode_video calls them).    *)
(***************************************************************************)
VARIABLES
    qpc,              \* position in the probes of encode_video
    dur_out,          \* what ffprobe prints for format=duration
    fr_out,           \* what ffprobe prints for avg_frame_rate
    audio_out,        \* the outcome of ffprobe for the audio stream
    probed_duration,  \* get_duration(vid), in tenths of a second
    probed_fps,       \* get_frame_rate(vid), a fraction [num, den]
    orig_audio_props  \* get_video_audio_info(vid): <<codec, kbps>>

qvars == <<qpc, dur_out, fr_out, audio_out, probed_duration, probed_fps,
           orig_audio_props>>

(***************************************************************************)
(* State of check_quality.py, main().                                      *)
(***************************************************************************)
VARIABLES
    kpc,             \* position in main
    kdirs_exist,     \* both directories exist
    ktotal,          \* number of videos of the secondary directory
    kidx,            \* index of the for loop
    all_results,     \* the scores appended so far
    score_matched,   \* per appended score, whether the pattern matched
    average_result   \* [sum, len] of the printed average, len 0 before it

kvars == <<kpc, kdirs_exist, ktotal, kidx, all_results, score_matched,
           average_result>>

(***************************************************************************)
(* State of photo_encoder.py, process_image as main calls it per image.    *)
(***************************************************************************)
VARIABLES
    xpc,          \* position in process_image
    ximages,      \* number of images of the input directory
    xidx,         \* the image main is processing
    xsources,     \* per image, the source file: "intact" or "deleted"
    xouts,        \* per image, out_file: "absent", "existing" or "written"
    temp_dir,     \* the temporary files in temp/: <<image, "png" or "out">>
    tmp,          \* what resize_image returned: "png", "path", "none" before
    encode_OK     \* "unset", "ok" or "failed"

xvars == <<xpc, ximages, xidx, xsources, xouts, temp_dir, tmp, encode_OK>>

(***************************************************************************)
(* State of set_video_date (fix_date.py, fix_metadata.py) and              *)
(* set_video_creation_time (check_metadata.py), called per video.          *)
(***************************************************************************)
VARIABLES
    dpc,             \* position in set_video_date
    dtotal,          \* number of videos the script fixes
    didx,            \* the video of the current call
    originals,       \* per video, the file at path: "original" or "replaced"
    tmp_files,       \* per video, the file at tmp_path: "absent" or "present"
    res_returncode,  \* res.returncode of the remux, None before it
    date_result      \* what the call returned: "none", "True" or "False"

dvars == <<dpc, dtotal, didx, originals, tmp_files, res_returncode, date_result>>

vars == <<rvars, vvars, evars, pvars, ivars, bvars, qvars, kvars, xvars, dvars>>

\* What the actions of one script leave unchanged: the other scripts' state.
NotRetention == <<vvars, evars, pvars, ivars, bvars, qvars, kvars, xvars, dvars>>
NotValidators == <<rvars, evars, pvars, ivars, bvars, qvars, kvars, xvars, dvars>>
NotEncode == <<rvars, vvars, pvars, ivars, bvars, qvars, kvars, xvars, dvars>>
NotPlan == <<rvars, vvars, evars, ivars, bvars, qvars, kvars, xvars, dvars>>
NotResize == <<rvars, vvars, evars, pvars, bvars, qvars, kvars, xvars, dvars>>
NotBatch == <<rvars, vvars, evars, pvars, ivars, qvars, kvars, xvars, dvars>>
NotProbe == <<rvars, vvars, evars, pvars, ivars, bvars, kvars, xvars, dvars>>
NotQuality == <<rvars, vvars, evars, pvars, ivars, bvars, qvars, xvars, dvars>>
NotImage == <<rvars, vvars, evars, pvars, ivars, bvars, qvars, kvars, dvars>>
NotDate == <<rvars, vvars, evars, pvars, ivars, bvars, qvars, kvars, xvars>>

RetentionScripts == {"select_best", "select_best_del"}
Dirs == {"base", "vid_av1", "final_vid"}

\* A file is identified by where it was created (src, name) and has a size;
\* the identity is what lets the model tell an intact file from an
\* overwritten one.
NoFile == [src |-> "none", name |-> 0, size |-> None]
FileOf(d, k, s) == [src |-> d, name |-> k, size |-> s]

Exists(f, d, k) == f[d][k] # NoFile

\* stem[:-4] if stem.endswith('_av1') else stem
StripSuffix(k) == IF k > 0 THEN k - 1 ELSE k

\* sorted([...]): "clip.ext" < "clip_av1.ext" < "clip_av1_av1.ext" because
\* '.' sorts before '_', so the sorted list is by ascending level.
RECURSIVE SortedSeq(_)
SortedSeq(S) ==
    IF S = {} THEN <<>>
    ELSE LET m == CHOOSE x \in S : \A y \in S : x <= y
         IN  <<m>> \o SortedSeq(S \ {m})

\* shutil.move(src, dst) for a dst that is a file path: os.rename replaces an
\* existing destination on POSIX, and the copy2+unlink fallback replaces it
\* elsewhere.
ShutilMove(f, sd, sk, dd, dk) ==
    [f EXCEPT ![sd][sk] = NoFile, ![dd][dk] = f[sd][sk]]

\* Path.unlink()
Unlink(f, d, k) == [f EXCEPT ![d][k] = NoFile]

\* A candidate that also wins a tie (<= written for <).
CandidateWinsOnTie(sa, so) == sa <= so

\* size_av1 < size_orig
CandidateWins(sa, so) == sa < so

\* The scripts that a specification does not run stay in these states.
DateIdle ==
    /\ dpc = "idle"
    /\ dtotal = 0
    /\ didx = 0
    /\ originals = <<>>
    /\ tmp_files = <<>>
    /\ res_returncode = None
    /\ date_result = "none"

ImageIdle ==
    /\ xpc = "idle"
    /\ ximages = 0
    /\ xidx = 0
    /\ xsources = <<>>
    /\ xouts = <<>>
    /\ temp_dir = {}
    /\ tmp = "none"
    /\ encode_OK = "unset"

QualityIdle ==
    /\ kpc = "idle"
    /\ kdirs_exist = FALSE
    /\ ktotal = 0
    /\ kidx = 0
    /\ all_results = <<>>
    /\ score_matched = <<>>
    /\ average_result = [sum |-> 0, len |-> 0]

ProbeIdle ==
    /\ qpc = "idle"
    /\ dur_out = None
    /\ fr_out = None
    /\ audio_out = None
    /\ probed_duration = None
    /\ probed_fps = None
    /\ orig_audio_props = None

BatchIdle ==
    /\ bpc = "idle"
    /\ base_is_dir = FALSE
    /\ videos = <<>>
    /\ bidx = 0
    /\ outs = <<>>
    /\ skipped = {}
    /\ failed = {}
    /\ exit_code = None
    /\ runs = 0

ResizeIdle ==
    /\ ipc = "idle"
    /\ img_w = 0
    /\ img_h = 0
    /\ megapixels = 0
    /\ max_dim = 0
    /\ new_w = None
    /\ new_h = None

PlanIdle ==
    /\ ppc = "idle"
    /\ fr_text = [kind |-> "text", num |-> 0, den |-> 0]
    /\ input_fps = [num |-> 0, den |-> 1]
    /\ width = 0
    /\ height = 0
    /\ downscale = 0
    /\ res = None
    /\ new_width = None
    /\ new_height = None
    /\ cmd_r = None
    /\ orig_bitrate = 0
    /\ audio_bitrate = 0
    /\ ab = None
    /\ out_w = None
    /\ out_h = None
    /\ policy = None
    /\ float_low = None
    /\ first_cmd = NoCmd

EncodeIdle ==
    /\ epc = "idle"
    /\ proc = "none"
    /\ returncode = None
    /\ out_file = "absent"
    /\ duration = 0
    /\ fps = 0
    /\ bitrate = [kind |-> "text", n |-> 0, text |-> "0kbits/s"]
    /\ pct_num = 0
    /\ status_lines = 0
    /\ result = "none"
    /\ cancelled = FALSE
    /\ final_pct = None

RetentionIdle ==
    /\ rscript = "none"
    /\ fs = [d \in Dirs |-> [k \in Levels |-> NoFile]]
    /\ vid_is_dir = FALSE
    /\ validated = {}
    /\ rpc = "idle"
    /\ av1_files = <<>>
    /\ idx = 0
    /\ av1 = 0
    /\ orig = 0
    /\ size_av1 = None
    /\ size_orig = None

ValidatorsIdle ==
    /\ vscript = "none"
    /\ mode = "time"
    /\ delete = FALSE
    /\ dirs_exist = FALSE
    /\ secondary = [v \in Videos |-> "absent"]
    /\ base_ext = [v \in Videos |-> "none"]
    /\ vpc = "idle"
    /\ coded_videos = <<>>
    /\ vidx = 0
    /\ vids_To_Delete = <<>>
    /\ vid = 0
    /\ vid_decodable = TRUE
    /\ orig_found = FALSE
    /\ dur_secondary = None
    /\ dur_original = None
    /\ ok_decode = "unset"
    /\ orig_stem = 0
    /\ size_sec = None
    /\ vsize_orig = None
    /\ size_margin = 0
    /\ all_original_size = 0
    /\ diff_percentage_set = FALSE
    /\ confirm = "unasked"
    /\ answer = "unasked"

(***************************************************************************)
(* Initial states: any originals in base/, any candidates in vid_av1/,     *)
(* an empty holding directory.  base/ holds no file of the top level: no   *)
(* candidate of the model maps to it.                                      *)
(***************************************************************************)
RetentionInit ==
    /\ DateIdle
    /\ ImageIdle
    /\ QualityIdle
    /\ ProbeIdle
    /\ BatchIdle
    /\ ResizeIdle
    /\ PlanIdle
    /\ ValidatorsIdle
    /\ EncodeIdle
    /\ rscript \in RetentionScripts
    /\ vid_is_dir \in BOOLEAN
    /\ \E b \in [Levels -> {0} \cup Sizes], v \in [Levels -> {0} \cup Sizes] :
          /\ b[MaxLevel] = 0
          /\ ~vid_is_dir => \A k \in Levels : v[k] = 0
          /\ fs = [d \in Dirs |->
                    [k \in Levels |->
                       CASE d = "base" /\ b[k] > 0 -> FileOf("base", k, b[k])
                         [] d = "vid_av1" /\ v[k] > 0 -> FileOf("vid_av1", k, v[k])
                         [] OTHER -> NoFile]]
    /\ validated \in {{}, {k \in Levels : fs["vid_av1"][k] # NoFile}}
    /\ rpc = "start"
    /\ av1_files = <<>>
    /\ idx = 0
    /\ av1 = 0
    /\ orig = 0
    /\ size_av1 = None
    /\ size_orig = None

(***************************************************************************)
(* select_best.py / select_best_del.py : main()                            *)
(***************************************************************************)
\* lines 23-35: directory check, mkdir, list and sort the candidates.
RStart ==
    /\ rpc = "start"
    /\ IF ~vid_is_dir
       THEN /\ rpc' = "exit1"
            /\ UNCHANGED <<av1_files, idx>>
       ELSE LET found == {k \in Levels : Exists(fs, "vid_av1", k)}
            IN  /\ av1_files' = SortedSeq(found)
                /\ idx' = 1
                /\ rpc' = IF found = {} THEN "done" ELSE "loop"
    /\ UNCHANGED <<rscript, fs, vid_is_dir, validated, av1, orig, size_av1, size_orig>>
    /\ UNCHANGED NotRetention

\* lines 37-49: derive the original from the candidate and stat both.
RBeginIteration ==
    /\ rpc = "loop"
    /\ idx <= Len(av1_files)
    /\ LET a == av1_files[idx]
           o == StripSuffix(a)
       IN  /\ av1' = a
           /\ orig' = o
           /\ size_av1' = fs["vid_av1"][a].size
           /\ size_orig' = IF Exists(fs, "base", o) THEN fs["base"][o].size ELSE None
    /\ rpc' = "decide"
    /\ UNCHANGED <<rscript, fs, vid_is_dir, validated, av1_files, idx>>
    /\ UNCHANGED NotRetention

\* lines 52-55: no original, the candidate is moved to final_vid/.
RMoveNoOriginal ==
    /\ rpc = "decide"
    /\ size_orig = None
    /\ fs' = ShutilMove(fs, "vid_av1", av1, "final_vid", av1)
    /\ idx' = idx + 1
    /\ rpc' = "loop"
    /\ UNCHANGED <<rscript, vid_is_dir, validated, av1_files, av1, orig, size_av1, size_orig>>
    /\ UNCHANGED NotRetention

\* lines 58-62 (select_best_del) / 58-63 (select_best, whose message spans
\* one more line): the candidate is smaller and is moved to final_vid/.
RMoveCandidate ==
    /\ rpc = "decide"
    /\ size_orig # None
    /\ CandidateWins(size_av1, size_orig)
    /\ fs' = ShutilMove(fs, "vid_av1", av1, "final_vid", av1)
    /\ IF rscript = "select_best_del"
       THEN rpc' = "unlink_orig" /\ idx' = idx
       ELSE rpc' = "loop" /\ idx' = idx + 1
    /\ UNCHANGED <<rscript, vid_is_dir, validated, av1_files, av1, orig, size_av1, size_orig>>
    /\ UNCHANGED NotRetention

\* select_best_del.py line 63: orig.unlink()
RUnlinkOriginal ==
    /\ rpc = "unlink_orig"
    /\ fs' = Unlink(fs, "base", orig)
    /\ idx' = idx + 1
    /\ rpc' = "loop"
    /\ UNCHANGED <<rscript, vid_is_dir, validated, av1_files, av1, orig, size_av1, size_orig>>
    /\ UNCHANGED NotRetention

\* lines 64-68 (select_best_del) / 64-69 (select_best, whose message spans
\* one more line): tie or larger candidate, the original is moved to
\* final_vid/.
RMoveOriginal ==
    /\ rpc = "decide"
    /\ size_orig # None
    /\ ~CandidateWins(size_av1, size_orig)
    /\ fs' = ShutilMove(fs, "base", orig, "final_vid", orig)
    /\ IF rscript = "select_best_del"
       THEN rpc' = "unlink_av1" /\ idx' = idx
       ELSE rpc' = "loop" /\ idx' = idx + 1
    /\ UNCHANGED <<rscript, vid_is_dir, validated, av1_files, av1, orig, size_av1, size_orig>>
    /\ UNCHANGED NotRetention

\* select_best_del.py line 69: av1.unlink()
RUnlinkCandidate ==
    /\ rpc = "unlink_av1"
    /\ fs' = Unlink(fs, "vid_av1", av1)
    /\ idx' = idx + 1
    /\ rpc' = "loop"
    /\ UNCHANGED <<rscript, vid_is_dir, validated, av1_files, av1, orig, size_av1, size_orig>>
    /\ UNCHANGED NotRetention

\* line 71: the loop is exhausted.
RFinish ==
    /\ rpc = "loop"
    /\ idx > Len(av1_files)
    /\ rpc' = "done"
    /\ UNCHANGED <<rscript, fs, vid_is_dir, validated, av1_files, idx, av1, orig,
                   size_av1, size_orig>>
    /\ UNCHANGED NotRetention

\* The operator launches one of the two scripts again on the same directory
\* (final_dir.mkdir(exist_ok=True) accepts a holding directory left by an
\* earlier run).
RRerun ==
    /\ rpc = "done"
    /\ rscript' \in RetentionScripts
    /\ rpc' = "start"
    /\ av1_files' = <<>>
    /\ idx' = 0
    /\ av1' = 0
    /\ orig' = 0
    /\ size_av1' = None
    /\ size_orig' = None
    /\ UNCHANGED <<fs, vid_is_dir, validated>>
    /\ UNCHANGED NotRetention

RetentionNext ==
    \/ RStart
    \/ RBeginIteration
    \/ RMoveNoOriginal
    \/ RMoveCandidate
    \/ RUnlinkOriginal
    \/ RMoveOriginal
    \/ RUnlinkCandidate
    \/ RFinish
    \/ RRerun

SpecRetention == RetentionInit /\ [][RetentionNext]_vars

(***************************************************************************)
(* Validators: shared definitions.                                         *)
(***************************************************************************)
Validators == {"check_integrity", "check_size", "size_check"}
Exts == {"mp4", "3gp", "mkv"}
Suffixes == {"", "_av1", "_hevc"}

\* choices=["time", "decode", "both"]
Modes == {"time", "decode", "both"}
\* if mode in ['time', 'both']
TimeModes == {"time", "both"}
\* if mode in ['code', 'both']
DecodeModes == {"code", "both"}

\* margin = 0.5 (seconds), in tenths of a second.
margin == 5

Abs(x) == IF x < 0 THEN 0 - x ELSE x

\* The files of the secondary directory, sorted (stems sort by video number).
Present(sec) == {v \in Videos : sec[v] # "absent"}

\* orig = base / (stem + ".mp4"), then ".3gp", then ".mkv" when the path
\* before does not exist: the extension the lookup ends on.  `has` is the set
\* of extensions under which base/ holds a file of that stem.
FallbackExt(has) ==
    IF "mp4" \in has THEN "mp4" ELSE IF "3gp" \in has THEN "3gp" ELSE "mkv"

\* Extensions under which base/ holds "<full stem of v>.<ext>".  The
\* originals of the model are named by the bare stem, so a candidate whose
\* stem carries a suffix has none.
BaseHas(bext, sec, v) ==
    IF sec[v] = "" /\ bext[v] # "none" THEN {bext[v]} ELSE {}

OrigExists(bext, sec, v) == FallbackExt(BaseHas(bext, sec, v)) \in BaseHas(bext, sec, v)

\* diff <= margin with diff = abs(dur_secondary - dur_original)
DurationStrictlyInside(ds, do, m) == Abs(ds - do) < m

DurationOk(ds, do, m) == Abs(ds - do) <= m

\* The outcome of the time check (Case 1, Case 2, Case 3 of main()).
TimeVerdictOriginalFirst(ds, do) ==
    IF do = None THEN "unknown"
    ELSE IF ds = None THEN "delete"
    ELSE IF DurationOk(ds, do, margin) THEN "ok" ELSE "delete"

TimeVerdict(ds, do) ==
    IF ds = None THEN "delete"
    ELSE IF do = None THEN "unknown"
    ELSE IF DurationOk(ds, do, margin) THEN "ok" ELSE "delete"

InList(list, v) == \E i \in 1..Len(list) : list[i] = v

\* input(...).strip().lower() on the answers the model lets the operator type.
Answers == {"y", "Y", " y ", "n", "yes", ""}
StripLower(a) == IF a \in {"y", "Y", " y "} THEN "y" ELSE a

\* A deletion of every file of the secondary directory.
DeleteEveryFile(sec, list) == [v \in Videos |-> "absent"]

\* delete_files(files): path.unlink() for each file of the list.
DeleteFiles(sec, list) ==
    [v \in Videos |-> IF InList(list, v) THEN "absent" ELSE sec[v]]

ValidatorLocalsReset ==
    /\ orig_found' = FALSE
    /\ dur_secondary' = None
    /\ dur_original' = None
    /\ ok_decode' = "unset"
    /\ size_sec' = None
    /\ vsize_orig' = None

(***************************************************************************)
(* check_integrity.py : main()                                             *)
(***************************************************************************)
IntegrityInit ==
    /\ DateIdle
    /\ ImageIdle
    /\ QualityIdle
    /\ ProbeIdle
    /\ BatchIdle
    /\ ResizeIdle
    /\ PlanIdle
    /\ RetentionIdle
    /\ EncodeIdle
    /\ vscript = "check_integrity"
    /\ mode \in Modes
    /\ delete \in BOOLEAN
    /\ dirs_exist \in BOOLEAN
    /\ \E n \in 0..MaxVideos :
          /\ secondary = [v \in Videos |-> IF v <= n THEN "" ELSE "absent"]
          /\ base_ext \in [Videos -> Exts \cup {"none"}]
          /\ \A v \in Videos : v > n => base_ext[v] = "none"
          /\ ~dirs_exist => n = 0
    /\ vpc = "start"
    /\ coded_videos = <<>>
    /\ vidx = 0
    /\ vids_To_Delete = <<>>
    /\ vid = 0
    /\ vid_decodable = TRUE
    /\ orig_found = FALSE
    /\ dur_secondary = None
    /\ dur_original = None
    /\ ok_decode = "unset"
    /\ orig_stem = 0
    /\ size_sec = None
    /\ vsize_orig = None
    /\ size_margin = 0
    /\ all_original_size = 0
    /\ diff_percentage_set = FALSE
    /\ confirm = "unasked"
    /\ answer = "unasked"

\* lines 126-141: directory check, listing, empty directory.  With no file
\* the message concatenates a str and a Path, which raises TypeError.
IStart ==
    /\ vpc = "start"
    /\ vscript = "check_integrity"
    /\ IF ~dirs_exist
       THEN /\ vpc' = "exit1"
            /\ UNCHANGED <<coded_videos, vidx, vid, vid_decodable>>
       ELSE /\ coded_videos' = SortedSeq(Present(secondary))
            /\ IF Present(secondary) = {}
               THEN /\ vpc' = "crash"
                    /\ UNCHANGED <<vidx, vid, vid_decodable>>
               ELSE /\ vpc' = "time"
                    /\ vidx' = 1
                    /\ vid' = coded_videos'[1]
                    /\ vid_decodable' \in BOOLEAN
    /\ UNCHANGED <<vscript, mode, delete, dirs_exist, secondary, base_ext,
                   vids_To_Delete, orig_found, dur_secondary, dur_original,
                   ok_decode, orig_stem, size_sec, vsize_orig, size_margin,
                   all_original_size, diff_percentage_set, confirm,
                   answer>>
    /\ UNCHANGED NotValidators

\* lines 148-181: the time check of one video.
ITimeCheck ==
    /\ vpc = "time"
    /\ mode \in TimeModes
    /\ LET found == OrigExists(base_ext, secondary, vid)
       IN  \E ds \in Durations \cup {None} :
           \E do \in (IF found THEN OrigDurations \cup {None} ELSE {None}) :
              /\ orig_found' = found
              /\ dur_secondary' = ds
              /\ dur_original' = do
              /\ vids_To_Delete' =
                    IF TimeVerdict(ds, do) = "delete"
                    THEN Append(vids_To_Delete, vid)
                    ELSE vids_To_Delete
    /\ vpc' = "decode"
    /\ UNCHANGED <<vscript, mode, delete, dirs_exist, secondary, base_ext,
                   coded_videos, vidx, vid, vid_decodable, ok_decode,
                   orig_stem, size_sec, vsize_orig, size_margin,
                   all_original_size, diff_percentage_set, confirm,
                   answer>>
    /\ UNCHANGED NotValidators

\* line 148 false: the time check is not requested.
ISkipTimeCheck ==
    /\ vpc = "time"
    /\ mode \notin TimeModes
    /\ vpc' = "decode"
    /\ UNCHANGED <<vscript, mode, delete, dirs_exist, secondary, base_ext,
                   coded_videos, vidx, vids_To_Delete, vid, vid_decodable,
                   orig_found, dur_secondary, dur_original, ok_decode,
                   orig_stem, size_sec, vsize_orig, size_margin,
                   all_original_size, diff_percentage_set, confirm,
                   answer>>
    /\ UNCHANGED NotValidators

\* lines 184-194: the decoding test of one video.
IDecodeCheck ==
    /\ vpc = "decode"
    /\ mode \in DecodeModes
    /\ ok_decode' = IF vid_decodable THEN "ok" ELSE "failed"
    /\ vids_To_Delete' =
          IF ~vid_decodable /\ ~InList(vids_To_Delete, vid)
          THEN Append(vids_To_Delete, vid)
          ELSE vids_To_Delete
    /\ vpc' = "next"
    /\ UNCHANGED <<vscript, mode, delete, dirs_exist, secondary, base_ext,
                   coded_videos, vidx, vid, vid_decodable, orig_found,
                   dur_secondary, dur_original, orig_stem, size_sec,
                   vsize_orig, size_margin, all_original_size,
                   diff_percentage_set, confirm,
                   answer>>
    /\ UNCHANGED NotValidators

\* line 184 false: the decoding test is not run.
ISkipDecodeCheck ==
    /\ vpc = "decode"
    /\ mode \notin DecodeModes
    /\ vpc' = "next"
    /\ UNCHANGED <<vscript, mode, delete, dirs_exist, secondary, base_ext,
                   coded_videos, vidx, vids_To_Delete, vid, vid_decodable,
                   orig_found, dur_secondary, dur_original, ok_decode,
                   orig_stem, size_sec, vsize_orig, size_margin,
                   all_original_size, diff_percentage_set, confirm,
                   answer>>
    /\ UNCHANGED NotValidators

\* line 144: the for loop takes the next video, or ends.
INextVideo ==
    /\ vpc = "next"
    /\ vscript = "check_integrity"
    /\ IF vidx < Len(coded_videos)
       THEN /\ vidx' = vidx + 1
            /\ vid' = coded_videos[vidx + 1]
            /\ vid_decodable' \in BOOLEAN
            /\ ValidatorLocalsReset
            /\ vpc' = "time"
       ELSE /\ vpc' = "delete_logic"
            /\ UNCHANGED <<vidx, vid, vid_decodable, orig_found, dur_secondary,
                           dur_original, ok_decode, size_sec, vsize_orig>>
    /\ UNCHANGED <<vscript, mode, delete, dirs_exist, secondary, base_ext,
                   coded_videos, vids_To_Delete, orig_stem, size_margin,
                   all_original_size, diff_percentage_set, confirm,
                   answer>>
    /\ UNCHANGED NotValidators

\* check_integrity.py lines 197-198 / check_size.py lines 148-149.
VDeleteLogic ==
    /\ vpc = "delete_logic"
    /\ vscript \in {"check_integrity", "check_size"}
    /\ vpc' = IF delete /\ vids_To_Delete # <<>> THEN "prompt" ELSE "done"
    /\ UNCHANGED <<vscript, mode, delete, dirs_exist, secondary, base_ext,
                   coded_videos, vidx, vids_To_Delete, vid, vid_decodable,
                   orig_found, dur_secondary, dur_original, ok_decode,
                   orig_stem, size_sec, vsize_orig, size_margin,
                   all_original_size, diff_percentage_set, confirm,
                   answer>>
    /\ UNCHANGED NotValidators

\* check_integrity.py lines 199-206 / check_size.py lines 150-157: the list is
\* printed and the operator is asked.
VPrompt ==
    /\ vpc = "prompt"
    /\ \E a \in Answers :
          /\ answer' = a
          /\ confirm' = StripLower(a)
          /\ vpc' = IF StripLower(a) = "y" THEN "delete_files" ELSE "done"
    /\ UNCHANGED <<vscript, mode, delete, dirs_exist, secondary, base_ext,
                   coded_videos, vidx, vids_To_Delete, vid, vid_decodable,
                   orig_found, dur_secondary, dur_original, ok_decode,
                   orig_stem, size_sec, vsize_orig, size_margin,
                   all_original_size, diff_percentage_set>>
    /\ UNCHANGED NotValidators

\* delete_files(vids_To_Delete) / delete_vids(vids_To_Delete)
VDeleteFiles ==
    /\ vpc = "delete_files"
    /\ secondary' = DeleteFiles(secondary, vids_To_Delete)
    /\ vpc' = "done"
    /\ UNCHANGED <<vscript, mode, delete, dirs_exist, base_ext,
                   coded_videos, vidx, vids_To_Delete, vid, vid_decodable,
                   orig_found, dur_secondary, dur_original, ok_decode,
                   orig_stem, size_sec, vsize_orig, size_margin,
                   all_original_size, diff_percentage_set, confirm,
                   answer>>
    /\ UNCHANGED NotValidators

IntegrityNext ==
    \/ IStart
    \/ ITimeCheck
    \/ ISkipTimeCheck
    \/ IDecodeCheck
    \/ ISkipDecodeCheck
    \/ INextVideo
    \/ VDeleteLogic
    \/ VPrompt
    \/ VDeleteFiles

SpecIntegrity == IntegrityInit /\ [][IntegrityNext]_vars

(***************************************************************************)
(* check_size.py / size_check.py : main()                                  *)
(***************************************************************************)
\* --margin default "-50" (check_size), margin_pct default 0 (size_check)
SizeMargins == {0 - 50, 0}

\* pct = (diff_mb / mb_orig * 100) if mb_orig > 0 else 0 ; pct >= margin.
\* For mb_orig > 0 the comparison is the same as diff * 100 >= margin * orig.
BiggerThanMargin(ss, so, m) ==
    IF so > 0 THEN (ss - so) * 100 >= m * so ELSE 0 >= m

\* size_check.py lines 73-76: the stem the original is looked up by.  A stem
\* without a known suffix leaves orig_stem as the previous iteration set it
\* (0: never set).
SizeCheckOrigStem(sec, v, prev) ==
    IF sec[v] \in {"_hevc", "_av1"} THEN v ELSE prev

\* size_check.py lines 78-89: only .mp4 and .3gp originals are found.
SizeCheckOrigExists(bext, stem) == bext[stem] \in {"mp4", "3gp"}

SizeInit ==
    /\ DateIdle
    /\ ImageIdle
    /\ QualityIdle
    /\ ProbeIdle
    /\ BatchIdle
    /\ ResizeIdle
    /\ PlanIdle
    /\ RetentionIdle
    /\ EncodeIdle
    /\ vscript \in {"check_size", "size_check"}
    /\ mode = "time"
    /\ delete \in BOOLEAN
    /\ dirs_exist \in BOOLEAN
    /\ size_margin \in SizeMargins
    /\ \E n \in 0..MaxVideos :
          /\ secondary \in [Videos -> Suffixes \cup {"absent"}]
          /\ \A v \in Videos : secondary[v] = "absent" <=> v > n
          /\ base_ext \in [Videos -> Exts \cup {"none"}]
          /\ \A v \in Videos : v > n => base_ext[v] = "none"
          /\ ~dirs_exist => n = 0
    /\ vpc = "start"
    /\ coded_videos = <<>>
    /\ vidx = 0
    /\ vids_To_Delete = <<>>
    /\ vid = 0
    /\ vid_decodable = TRUE
    /\ orig_found = FALSE
    /\ dur_secondary = None
    /\ dur_original = None
    /\ ok_decode = "unset"
    /\ orig_stem = 0
    /\ size_sec = None
    /\ vsize_orig = None
    /\ all_original_size = 0
    /\ diff_percentage_set = FALSE
    /\ confirm = "unasked"
    /\ answer = "unasked"

\* check_size.py lines 75-93 / size_check.py lines 55-67.
ZStart ==
    /\ vpc = "start"
    /\ vscript \in {"check_size", "size_check"}
    /\ IF ~dirs_exist
       THEN /\ vpc' = "exit1"
            /\ UNCHANGED <<coded_videos, vidx, vid>>
       ELSE /\ coded_videos' = SortedSeq(Present(secondary))
            /\ IF Present(secondary) = {}
               THEN /\ vpc' = "done"
                    /\ UNCHANGED <<vidx, vid>>
               ELSE /\ vpc' = "size"
                    /\ vidx' = 1
                    /\ vid' = coded_videos'[1]
    /\ UNCHANGED <<vscript, mode, delete, dirs_exist, secondary, base_ext,
                   vids_To_Delete, vid_decodable, orig_found, dur_secondary,
                   dur_original, ok_decode, orig_stem, size_sec, vsize_orig,
                   size_margin, all_original_size, diff_percentage_set, confirm,
                   answer>>
    /\ UNCHANGED NotValidators

\* check_size.py lines 96-138: one iteration.
ZCheckSize ==
    /\ vpc = "size"
    /\ vscript = "check_size"
    /\ LET found == OrigExists(base_ext, secondary, vid)
       IN  \E ss \in VSizes :
           \E so \in (IF found THEN VSizes ELSE {None}) :
              /\ orig_found' = found
              /\ size_sec' = ss
              /\ vsize_orig' = so
              /\ IF so = None
                 THEN UNCHANGED <<all_original_size, vids_To_Delete>>
                 ELSE /\ all_original_size' = all_original_size + so
                      /\ vids_To_Delete' =
                            IF BiggerThanMargin(ss, so, size_margin)
                            THEN Append(vids_To_Delete, vid)
                            ELSE vids_To_Delete
    /\ vpc' = "next"
    /\ UNCHANGED <<vscript, mode, delete, dirs_exist, secondary, base_ext,
                   coded_videos, vidx, vid, vid_decodable, dur_secondary,
                   dur_original, ok_decode, orig_stem, size_margin,
                   diff_percentage_set, confirm,
                   answer>>
    /\ UNCHANGED NotValidators

\* size_check.py lines 69-114: one iteration.  A stem without a known suffix
\* in the first iteration reads orig_stem before any assignment
\* (UnboundLocalError); a zero total of original sizes divides by zero at
\* line 111.
SCheckSize ==
    /\ vpc = "size"
    /\ vscript = "size_check"
    /\ LET stem == SizeCheckOrigStem(secondary, vid, orig_stem)
       IN  /\ orig_stem' = stem
           /\ IF stem = 0
              THEN /\ vpc' = "crash"
                   /\ UNCHANGED <<orig_found, size_sec, vsize_orig,
                                  all_original_size, vids_To_Delete,
                                  diff_percentage_set>>
              ELSE LET found == SizeCheckOrigExists(base_ext, stem)
                   IN  \E ss \in VSizes :
                       \E so \in (IF found THEN VSizes ELSE {None}) :
                          /\ orig_found' = found
                          /\ size_sec' = ss
                          /\ vsize_orig' = so
                          /\ IF so = None
                             THEN /\ vpc' = "next"
                                  /\ UNCHANGED <<all_original_size, vids_To_Delete,
                                                 diff_percentage_set>>
                             ELSE /\ all_original_size' = all_original_size + so
                                  /\ IF all_original_size + so = 0
                                     THEN /\ vpc' = "crash"
                                          /\ UNCHANGED <<vids_To_Delete,
                                                         diff_percentage_set>>
                                     ELSE /\ vpc' = "next"
                                          /\ diff_percentage_set' = TRUE
                                          /\ vids_To_Delete' =
                                                IF BiggerThanMargin(ss, so, size_margin)
                                                THEN Append(vids_To_Delete, vid)
                                                ELSE vids_To_Delete
    /\ UNCHANGED <<vscript, mode, delete, dirs_exist, secondary, base_ext,
                   coded_videos, vidx, vid, vid_decodable, dur_secondary,
                   dur_original, ok_decode, size_margin, confirm,
                   answer>>
    /\ UNCHANGED NotValidators

\* The for loop takes the next video, or ends.
ZNextVideo ==
    /\ vpc = "next"
    /\ vscript \in {"check_size", "size_check"}
    /\ IF vidx < Len(coded_videos)
       THEN /\ vidx' = vidx + 1
            /\ vid' = coded_videos[vidx + 1]
            /\ ValidatorLocalsReset
            /\ vpc' = "size"
       ELSE /\ vpc' = "summary"
            /\ UNCHANGED <<vidx, vid, orig_found, dur_secondary,
                           dur_original, ok_decode, size_sec, vsize_orig>>
    /\ UNCHANGED <<vscript, mode, delete, dirs_exist, secondary, base_ext,
                   coded_videos, vids_To_Delete, vid_decodable, orig_stem,
                   size_margin, all_original_size, diff_percentage_set, confirm,
                   answer>>
    /\ UNCHANGED NotValidators

\* check_size.py lines 141-145: the summary divides by the total size of the
\* originals (ZeroDivisionError when it is 0).
\* size_check.py lines 116-117: the summary reads diff_percentage
\* (UnboundLocalError when no iteration assigned it).
ZSummary ==
    /\ vpc = "summary"
    /\ vpc' = IF vscript = "check_size"
              THEN (IF all_original_size = 0 THEN "crash" ELSE "delete_logic")
              ELSE (IF ~diff_percentage_set THEN "crash" ELSE "delete_logic")
    /\ UNCHANGED <<vscript, mode, delete, dirs_exist, secondary, base_ext,
                   coded_videos, vidx, vids_To_Delete, vid, vid_decodable,
                   orig_found, dur_secondary, dur_original, ok_decode,
                   orig_stem, size_sec, vsize_orig, size_margin,
                   all_original_size, diff_percentage_set, confirm,
                   answer>>
    /\ UNCHANGED NotValidators

\* size_check.py lines 119-120: if delete: delete_vids(vids_To_Delete)
SDeleteLogic ==
    /\ vpc = "delete_logic"
    /\ vscript = "size_check"
    /\ vpc' = IF delete THEN "delete_files" ELSE "done"
    /\ UNCHANGED <<vscript, mode, delete, dirs_exist, secondary, base_ext,
                   coded_videos, vidx, vids_To_Delete, vid, vid_decodable,
                   orig_found, dur_secondary, dur_original, ok_decode,
                   orig_stem, size_sec, vsize_orig, size_margin,
                   all_original_size, diff_percentage_set, confirm,
                   answer>>
    /\ UNCHANGED NotValidators

SizeNext ==
    \/ ZStart
    \/ ZCheckSize
    \/ SCheckSize
    \/ ZNextVideo
    \/ ZSummary
    \/ VDeleteLogic
    \/ SDeleteLogic
    \/ VPrompt
    \/ VDeleteFiles

SpecSize == SizeInit /\ [][SizeNext]_vars

\* The validators together: one of check_integrity.py, check_size.py and
\* size_check.py is launched.
ValidatorsInit == IntegrityInit \/ SizeInit

ValidatorsNext ==
    \/ IStart
    \/ ITimeCheck
    \/ ISkipTimeCheck
    \/ IDecodeCheck
    \/ ISkipDecodeCheck
    \/ INextVideo
    \/ ZStart
    \/ ZCheckSize
    \/ SCheckSize
    \/ ZNextVideo
    \/ ZSummary
    \/ VDeleteLogic
    \/ SDeleteLogic
    \/ VPrompt
    \/ VDeleteFiles

SpecValidators == ValidatorsInit /\ [][ValidatorsNext]_vars

(***************************************************************************)
(* encoder.py : encode_video, lines 236-286                                *)
(***************************************************************************)
\* The text after '=' in a progress line: an integer literal (for
\* out_time_ms the model counts it in whole seconds, i.e. n * 1_000_000), a
\* decimal literal with a fraction (n hundredths), or other text.
IntVal(n) == [kind |-> "int", n |-> n, text |-> ""]
DecVal(n) == [kind |-> "dec", n |-> n, text |-> ""]
TextVal(t) == [kind |-> "text", n |-> 0, text |-> t]

ProgressVals ==
    {IntVal(n) : n \in (0 - 1)..MaxOutTime}
       \cup {DecVal(2997)}
       \cup {TextVal(t) : t \in {"N/A", "end", "continue", "812.4kbits/s"}}

\* A line of the progress stream after strip(): key=value, or a line without
\* '=' (blank lines included).
NoEquals == [key |-> "", val |-> TextVal("")]
\* out_time_ms=<an integer of more than 314 digits>: int(val) succeeds and
\* current_time_ms / 1_000_000 raises OverflowError (line 265).
HugeOutTime == [key |-> "out_time_ms", val |-> [kind |-> "huge", n |-> 0, text |-> ""]]
ProgressEnd == [key |-> "progress", val |-> TextVal("end")]
ProgressLines ==
    {[key |-> k, val |-> v] :
        k \in {"fps", "bitrate", "out_time_ms", "progress", "speed"},
        v \in ProgressVals}
       \cup {NoEquals, HugeOutTime}

\* round(float(val), 1) in tenths; fps = 0 when float() raises.
ParseFps(v) ==
    CASE v.kind = "int" -> v.n * 10
      [] v.kind = "dec" -> (v.n + 5) \div 10
      [] OTHER -> 0

\* pct = (completed_sec / duration) * 100 if duration else 0 ; min(pct, 100).
\* The result is the numerator of a fraction over `duration`.
PercentNum(completed, dur) ==
    IF dur = 0 THEN 0
    ELSE IF completed * 100 <= 100 * dur THEN completed * 100 ELSE 100 * dur

\* line 277: the final status line always starts with "[100%]".
FinalPercent == 100

EncodeInit ==
    /\ DateIdle
    /\ ImageIdle
    /\ QualityIdle
    /\ ProbeIdle
    /\ BatchIdle
    /\ ResizeIdle
    /\ PlanIdle
    /\ RetentionIdle
    /\ ValidatorsIdle
    /\ epc = "spawn"
    /\ proc = "none"
    /\ returncode = None
    /\ out_file = "absent"
    /\ duration \in 0..MaxDuration
    /\ fps = 0
    /\ bitrate = [kind |-> "text", n |-> 0, text |-> "0kbits/s"]
    /\ pct_num = 0
    /\ status_lines = 0
    /\ result = "none"
    /\ cancelled = FALSE
    /\ final_pct = None

\* line 236: subprocess.Popen(cmd, ...).  It raises outside the try block
\* when ffmpeg cannot be started.
ESpawn ==
    /\ epc = "spawn"
    /\ \/ /\ proc' = "running"
          /\ epc' = "reading"
       \/ /\ proc' = "none"
          /\ epc' = "raised"
    /\ UNCHANGED <<returncode, out_file, duration, fps, bitrate, pct_num,
                   status_lines, result>>
    /\ UNCHANGED <<cancelled, final_pct>>
    /\ UNCHANGED NotEncode

\* ffmpeg opens (and truncates, -y) the output file.
FfmpegOpensOutput ==
    /\ proc = "running"
    /\ out_file = "absent"
    /\ out_file' = "partial"
    /\ UNCHANGED <<epc, proc, returncode, duration, fps, bitrate, pct_num,
                   status_lines, result>>
    /\ UNCHANGED <<cancelled, final_pct>>
    /\ UNCHANGED NotEncode

\* ffmpeg exits: with code 0 after writing the whole output, or with another
\* code, leaving whatever it had written.
FfmpegExits ==
    /\ proc = "running"
    /\ proc' = "exited"
    /\ \/ /\ out_file = "partial"
          /\ returncode' = 0
          /\ out_file' = "complete"
       \/ /\ returncode' = 1
          /\ UNCHANGED out_file
    /\ UNCHANGED <<epc, duration, fps, bitrate, pct_num, status_lines, result>>
    /\ UNCHANGED <<cancelled, final_pct>>
    /\ UNCHANGED NotEncode

\* lines 242-274: one line of the progress stream is read and parsed (the
\* pipe may still hold lines after the child has exited).
\* An OverflowError of line 265 is an Exception: control goes to the except
\* block of line 284.
EConsume(line) ==
    /\ epc = "reading"
    /\ fps' = IF line.key = "fps" THEN ParseFps(line.val) ELSE fps
    /\ bitrate' = IF line.key = "bitrate" THEN line.val ELSE bitrate
    /\ IF line.key = "out_time_ms" /\ line.val.kind = "int"
       THEN /\ pct_num' = PercentNum(line.val.n, duration)
            /\ status_lines' = IF status_lines < MaxStatusLines
                               THEN status_lines + 1 ELSE status_lines
       ELSE UNCHANGED <<pct_num, status_lines>>
    /\ epc' = IF line = ProgressEnd THEN "waiting"
              ELSE IF line = HugeOutTime THEN "handler"
              ELSE "reading"
    /\ UNCHANGED <<proc, returncode, out_file, duration, result>>
    /\ UNCHANGED <<cancelled, final_pct>>
    /\ UNCHANGED NotEncode

EReadLine == \E line \in ProgressLines : EConsume(line)

\* lines 242-244: readline() returns '' at the end of the stream.
EReadEOF ==
    /\ epc = "reading"
    /\ proc = "exited"
    /\ epc' = "waiting"
    /\ UNCHANGED <<proc, returncode, out_file, duration, fps, bitrate, pct_num,
                   status_lines, result>>
    /\ UNCHANGED <<cancelled, final_pct>>
    /\ UNCHANGED NotEncode

\* line 242: readline() raises an Exception (undecodable bytes with
\* text=True); control goes to the except block.
EReadRaises ==
    /\ epc = "reading"
    /\ epc' = "handler"
    /\ UNCHANGED <<proc, returncode, out_file, duration, fps, bitrate, pct_num,
                   status_lines, result>>
    /\ UNCHANGED <<cancelled, final_pct>>
    /\ UNCHANGED NotEncode

\* lines 276-282: proc.wait(), the final status line, and the exit code.
EWait ==
    /\ epc = "waiting"
    /\ proc = "exited"
    /\ IF returncode = 0
       THEN /\ result' = "ok"
            /\ epc' = "returned"
       ELSE /\ result' = "none"
            /\ epc' = "handler"
    /\ final_pct' = FinalPercent
    /\ UNCHANGED <<proc, returncode, out_file, duration, fps, bitrate, pct_num,
                   status_lines>>
    /\ UNCHANGED cancelled
    /\ UNCHANGED NotEncode

\* lines 284-286: [ERROR] is printed; print(e + "\n") then raises TypeError
\* (an exception and a str are added), which leaves encode_video.
EHandler ==
    /\ epc = "handler"
    /\ result' = "error"
    /\ epc' = "raised"
    /\ UNCHANGED <<proc, returncode, out_file, duration, fps, bitrate, pct_num,
                   status_lines>>
    /\ UNCHANGED <<cancelled, final_pct>>
    /\ UNCHANGED NotEncode

\* KeyboardInterrupt arrives while encode_video reads the progress stream
\* (line 242) or waits for the child (line 276).  It is no Exception, so the
\* except block at line 284 does not take it: it leaves encode_video, and
\* nothing terminates the child or removes out_file.
EInterrupt ==
    /\ epc \in {"reading", "waiting"}
    /\ cancelled' = TRUE
    /\ epc' = "raised"
    /\ UNCHANGED final_pct
    /\ UNCHANGED <<proc, returncode, out_file, duration, fps, bitrate, pct_num,
                   status_lines, result>>
    /\ UNCHANGED NotEncode

EncodeNext ==
    \/ ESpawn
    \/ FfmpegOpensOutput
    \/ FfmpegExits
    \/ EReadLine
    \/ EReadEOF
    \/ EReadRaises
    \/ EWait
    \/ EHandler
    \/ EInterrupt

SpecEncode == EncodeInit /\ [][EncodeNext]_vars

(***************************************************************************)
(* encoder.py : encode_video lines 195-233 (the ffmpeg command) with       *)
(* get_frame_rate, get_new_resolution and get_video_audio_info             *)
(***************************************************************************)
\* What ffprobe prints for avg_frame_rate: "num/den" (kind "ratio"), a plain
\* number num/den without a slash (kind "plain"), or text float() rejects,
\* the empty output included (kind "text").
FrTexts ==
    {[kind |-> "ratio", num |-> n[1], den |-> n[2]] :
        n \in {<<0, 0>>, <<23, 1>>, <<24000, 1001>>, <<24, 1>>, <<30, 1>>,
               <<239, 1>>, <<239737, 1000>>, <<240, 1>>}}
       \cup {[kind |-> "plain", num |-> 2997, den |-> 100]}
       \cup {[kind |-> "text", num |-> 0, den |-> 0]}

\* A frame rate without the test of the denominator.
GetFrameRateUnchecked(t) ==
    IF t.kind = "text" THEN [num |-> 0, den |-> 1]
    ELSE [num |-> t.num, den |-> t.den]

\* get_frame_rate: float(num) / float(den), 0.0 for den = 0 and for output
\* that does not parse.  The result is kept as a fraction.
GetFrameRate(t) ==
    CASE t.kind = "ratio" /\ t.den # 0 -> [num |-> t.num, den |-> t.den]
      [] t.kind = "plain" -> [num |-> t.num, den |-> t.den]
      [] OTHER -> [num |-> 0, den |-> 1]

\* A cap that starts at 239 (>= written for >).
FpsCapFrom239(f) ==
    IF f.num >= 239 * f.den THEN 240
    ELSE IF f.num < 24 * f.den THEN 24 ELSE None

\* lines 210-213: the value after -r, None when no -r is added.
FpsCap(f) ==
    IF f.num > 239 * f.den THEN 240
    ELSE IF f.num < 24 * f.den THEN 24 ELSE None

\* The --downscale choices are 180 ... 2160, all even; with sources of at
\* most MaxSide pixels the model takes small even resolutions.
DownscaleChoices == {2, 4}
Sides == 1..MaxSide

Min(a, b) == IF a <= b THEN a ELSE b

\* math.floor(x * scale_factor) with scale_factor = n / s computed in
\* floating point: the exact floor, or one less when x * n / s is an integer
\* and the product falls just below it (4280 * (2160 / 4280) is
\* 2159.9999999999995).
FloorScaled(x, n, s) ==
    IF (x * n) % s = 0
    THEN {(x * n) \div s, (x * n) \div s - 1}
    ELSE {(x * n) \div s}

\* The one value the floating-point unit gives for these operands.
FloorAs(x, n, s, low) ==
    IF low /\ (x * n) % s = 0 THEN (x * n) \div s - 1 ELSE (x * n) \div s

\* lines 126-127: an odd value is raised by one.
EvenUp(v) == IF v % 2 # 0 THEN v + 1 ELSE v

\* A resolution that is always the scaled one.
ResolutionAlwaysScaled(w, h, n, nw, nh) == Min(nh, nw)

\* lines 130-136: the value get_new_resolution returns.
Resolution(w, h, n, nw, nh) ==
    IF Min(w, h) > n THEN Min(nh, nw) ELSE Min(w, h)

\* get_video_audio_info lines 164-173: bit_rate in bits per second (None when
\* the line is missing or does not parse) to kbps, 0 when unknown.
ProbedBitRates == {None, 500, 48000, 64000, 96000, 128000, 192000}
KbpsOf(b) == IF b = None THEN 0 ELSE b \div 1000

\* The --audiobitrate choices the model takes.
AudioChoices == {32, 64, 128}

\* A bitrate that is passed through without the clamp.
AudioBitrateUnclamped(o, cap) == IF o # 0 THEN o ELSE cap

\* A bitrate that remembers an earlier call: once a command was built, the
\* cap is used.
AudioBitrateRemembered(o, cap) ==
    IF first_cmd = NoCmd /\ o # 0 /\ o <= cap THEN o ELSE cap

\* lines 225-228: the value after -b:a, in kbps.
AudioBitrate(o, cap) == IF o # 0 /\ o <= cap THEN o ELSE cap

\* The dimension ffmpeg's scale filter derives for "-2": the even number
\* nearest to r * a / b (the other dimension r times the aspect ratio a / b);
\* when r * a / b is an odd integer, either even neighbour.
AutoEven(r, a, b) ==
    {e \in 0..((r * a) \div b + 1) :
        /\ e % 2 = 0
        /\ e * b - r * a <= b
        /\ r * a - e * b <= b}

\* --library, --crf and --preset: the defaults, and one other choice.
Policies ==
    {[library |-> "libsvtav1", crf |-> "32", preset |-> "4"],
     [library |-> "libx265", crf |-> "24", preset |-> "6"]}

\* lines 201-233: the command, by the parts that vary: the codec options,
\* the resolution in the scale filter, the value after -r and the value
\* after -b:a.
Cmd ==
    [library |-> policy.library, crf |-> policy.crf, preset |-> policy.preset,
     vf |-> res, r |-> cmd_r, ab |-> ab]

PlanInit ==
    /\ DateIdle
    /\ ImageIdle
    /\ QualityIdle
    /\ ProbeIdle
    /\ BatchIdle
    /\ ResizeIdle
    /\ RetentionIdle
    /\ ValidatorsIdle
    /\ EncodeIdle
    /\ ppc = "probe"
    /\ fr_text \in FrTexts
    /\ input_fps = [num |-> 0, den |-> 1]
    /\ width \in Sides
    /\ height \in Sides
    /\ downscale \in DownscaleChoices
    /\ res = None
    /\ new_width = None
    /\ new_height = None
    /\ cmd_r = None
    /\ orig_bitrate = 0
    /\ audio_bitrate \in AudioChoices
    /\ ab = None
    /\ out_w = None
    /\ out_h = None
    /\ policy \in Policies
    /\ float_low \in {f \in [w : BOOLEAN, h : BOOLEAN] :
                         /\ f.w => (width * downscale) % Min(width, height) = 0
                         /\ f.h => (height * downscale) % Min(width, height) = 0}
    /\ first_cmd = NoCmd

\* lines 195-198: the probes of duration, frame rate and audio.
PProbe ==
    /\ ppc = "probe"
    /\ input_fps' = GetFrameRate(fr_text)
    /\ \E b \in ProbedBitRates : orig_bitrate' = KbpsOf(b)
    /\ ppc' = "downscale"
    /\ UNCHANGED <<fr_text, width, height, downscale, res, new_width,
                   new_height, cmd_r, audio_bitrate, ab, out_w, out_h>>
    /\ UNCHANGED <<policy, float_low, first_cmd>>
    /\ UNCHANGED NotPlan

\* lines 204-207 with get_new_resolution: ffprobe fails or prints something
\* else than two integers (the exception leaves encode_video), or the
\* resolution is computed and the scale filter added.
PDownscale ==
    /\ ppc = "downscale"
    /\ \/ /\ ppc' = "raised"
          /\ UNCHANGED <<res, new_width, new_height>>
       \/ LET s == IF width <= height THEN width ELSE height
          IN  \E fw \in FloorScaled(width, downscale, s) :
              \E fh \in FloorScaled(height, downscale, s) :
                 /\ fw = FloorAs(width, downscale, s, float_low.w)
                 /\ fh = FloorAs(height, downscale, s, float_low.h)
                 /\ new_width' = EvenUp(fw)
                 /\ new_height' = EvenUp(fh)
                 /\ res' = Resolution(width, height, downscale,
                                      EvenUp(fw), EvenUp(fh))
                 /\ ppc' = "fps"
    /\ UNCHANGED <<fr_text, input_fps, width, height, downscale, cmd_r,
                   orig_bitrate, audio_bitrate, ab, out_w, out_h>>
    /\ UNCHANGED <<policy, float_low, first_cmd>>
    /\ UNCHANGED NotPlan

\* lines 210-213: the frame-rate cap.
PFpsCap ==
    /\ ppc = "fps"
    /\ cmd_r' = FpsCap(input_fps)
    /\ ppc' = "audio"
    /\ UNCHANGED <<fr_text, input_fps, width, height, downscale, res,
                   new_width, new_height, orig_bitrate, audio_bitrate, ab,
                   out_w, out_h>>
    /\ UNCHANGED <<policy, float_low, first_cmd>>
    /\ UNCHANGED NotPlan

\* lines 216-233: the audio bitrate; the command is complete.
PAudio ==
    /\ ppc = "audio"
    /\ ab' = AudioBitrate(orig_bitrate, audio_bitrate)
    /\ ppc' = "built"
    /\ UNCHANGED <<fr_text, input_fps, width, height, downscale, res,
                   new_width, new_height, cmd_r, orig_bitrate, audio_bitrate,
                   out_w, out_h>>
    /\ UNCHANGED <<policy, float_low, first_cmd>>
    /\ UNCHANGED NotPlan

\* line 206, scale='if(gt(a,1),-2,res)':'if(gt(a,1),res,-2)': ffmpeg sets
\* the height of a landscape source (a > 1) to res and derives the width, and
\* sets the width of any other source to res and derives the height.
FfmpegScales ==
    /\ ppc = "built"
    /\ IF width > height
       THEN /\ out_h' = res
            /\ out_w' \in AutoEven(res, width, height)
       ELSE /\ out_w' = res
            /\ out_h' \in AutoEven(res, height, width)
    /\ ppc' = "scaled"
    /\ UNCHANGED <<fr_text, input_fps, width, height, downscale, res,
                   new_width, new_height, cmd_r, orig_bitrate, audio_bitrate,
                   ab>>
    /\ UNCHANGED <<policy, float_low, first_cmd>>
    /\ UNCHANGED NotPlan

\* encode_video is called again for the same probed properties and the same
\* arguments: its locals are fresh, the inputs are those of the first call.
PRederive ==
    /\ ppc = "built"
    /\ first_cmd = NoCmd
    /\ first_cmd' = Cmd
    /\ ppc' = "downscale"
    /\ res' = None
    /\ new_width' = None
    /\ new_height' = None
    /\ cmd_r' = None
    /\ ab' = None
    /\ UNCHANGED <<fr_text, input_fps, width, height, downscale, orig_bitrate,
                   audio_bitrate, out_w, out_h, policy, float_low>>
    /\ UNCHANGED NotPlan

PlanNext ==
    \/ PProbe
    \/ PDownscale
    \/ PFpsCap
    \/ PAudio
    \/ FfmpegScales
    \/ PRederive

SpecPlan == PlanInit /\ [][PlanNext]_vars

(***************************************************************************)
(* Properties of the ffmpeg command.                                       *)
(***************************************************************************)
\* The command has its frame-rate part.
FpsCapDone == ppc \in {"audio", "built", "scaled"}

\* C11: a probed frame rate above 239 puts -r 240 in the command, one below
\* 24 (the 0.0 of an unknown rate included) puts -r 24, any other adds no -r.
C11_FrameRateCap ==
    FpsCapDone =>
       /\ input_fps.num > 239 * input_fps.den => cmd_r = 240
       /\ input_fps.num < 24 * input_fps.den => cmd_r = 24
       /\ (/\ input_fps.num <= 239 * input_fps.den
           /\ input_fps.num >= 24 * input_fps.den) => cmd_r = None
       /\ (fr_text.kind = "text" \/ fr_text.den = 0) => cmd_r = 24

\* Witness of C11: the rate is unknown and the command carries -r 24.
C11_Witness ==
    /\ FpsCapDone
    /\ fr_text.kind = "text"
    /\ input_fps.num = 0
    /\ cmd_r = 24

C14_TargetDimensionEvenRoundedDown ==
    ppc \in {"fps", "audio", "built", "scaled"} =>
       /\ res % 2 = 0
       /\ Min(width, height) > downscale =>
             (/\ new_width % 2 = 0
              /\ new_height % 2 = 0
              /\ new_width * Min(width, height) <= width * downscale
              /\ new_height * Min(width, height) <= height * downscale)

\* C15 (as claimed): the audio bitrate of the command is 64 kbps when the
\* source bitrate is unknown, the source bitrate when it is known and at or
\* under the cap, and the cap otherwise.
C15_AudioBitrateFallback64 ==
    ppc \in {"built", "scaled"} =>
       /\ orig_bitrate = 0 => ab = 64
       /\ orig_bitrate # 0 => ab = Min(orig_bitrate, audio_bitrate)

\* C15 (amended): the audio bitrate of the command is the cap when the source
\* bitrate is unknown, and min(source, cap) when it is known.
C15_AudioBitrateFallbackCap ==
    ppc \in {"built", "scaled"} =>
       /\ orig_bitrate = 0 => ab = audio_bitrate
       /\ orig_bitrate # 0 /\ orig_bitrate <= audio_bitrate => ab = orig_bitrate
       /\ orig_bitrate > audio_bitrate => ab = audio_bitrate
       /\ orig_bitrate # 0 => ab = Min(orig_bitrate, audio_bitrate)

\* Witness of C15: the source bitrate is unknown and the cap, not 64, is in
\* the command.
C15_Witness ==
    /\ ppc = "built"
    /\ orig_bitrate = 0
    /\ audio_bitrate = 128
    /\ ab = 128

(***************************************************************************)
(* photo_encoder.py : resize_image, lines 47-73                            *)
(***************************************************************************)
\* main line 263: max_dim = 8704 if library == "avif" else 16382
AvifMaxDim == 8704
WebpMaxDim == 16382
\* line 49: target_pixels = target_megapixels * 1_000_000
PixelsPerMegapixel == 1000000

\* Widths and heights of the images of the model: tiny ones, ones around one
\* megapixel, and ones at and above each pixel ceiling.
ImageSides ==
    {1, 2, 3, 101, 999, 1000, 1001, 2001, 20001}
       \cup {AvifMaxDim + i : i \in 0..MaxOver}
       \cup {WebpMaxDim + i : i \in 0..MaxOver}

MegapixelTargets == {1, 12}

Max(a, b) == IF a >= b THEN a ELSE b

\* a / b > c / d for positive b and d, compared by integer parts and
\* remainders so that no product leaves the machine integers.
RECURSIVE FracGreater(_, _, _, _)
FracGreater(a, b, c, d) ==
    IF a \div b # c \div d THEN a \div b > c \div d
    ELSE IF a % b = 0 THEN FALSE
    ELSE IF c % d = 0 THEN TRUE
    ELSE FracGreater(d, c % d, b, a % b)

\* The largest k in lo..hi with k * k <= n.
RECURSIVE IsqrtIn(_, _, _)
IsqrtIn(n, lo, hi) ==
    IF lo = hi THEN lo
    ELSE LET mid == (lo + hi + 1) \div 2
         IN  IF mid * mid <= n THEN IsqrtIn(n, mid, hi) ELSE IsqrtIn(n, lo, mid - 1)

\* floor(x * t / y) for x * t too large to form: t = q * y + r.
FloorMulDiv(x, t, y) == x * (t \div y) + (x * (t % y)) \div y

\* line 58: orig_pixels > target_pixels
OverTarget(w, h, mp) == w * h > mp * PixelsPerMegapixel

\* int(x * scale) with scale = math.sqrt(target_pixels / orig_pixels), x one
\* side and y the other: the floor of sqrt(x * target / y), or one less when
\* that root is an integer and the floating-point product falls just below it.
SqrtScaled(x, y, mp) ==
    LET t == mp * PixelsPerMegapixel
        n == FloorMulDiv(x, t, y)
        k == IsqrtIn(n, 0, x)
    IN  IF k * k = n /\ (x * (t % y)) % y = 0 /\ k > 0
        THEN {k, k - 1}
        ELSE {k}

\* A resize that ignores the pixel ceiling.
NeverOverMaxDim(w, h, mp, m) == FALSE

\* line 62: max_dim != 0 and max(w * scale, h * scale) > max_dim, with scale
\* either 1 or sqrt(target_pixels / (w * h)).
OverMaxDim(w, h, mp, m) ==
    /\ m # 0
    /\ IF OverTarget(w, h, mp)
       THEN FracGreater(Max(w, h), Min(w, h), m * m, mp * PixelsPerMegapixel)
       ELSE Max(w, h) > m

\* lines 69-70: an odd value is lowered by one.
EvenDown(v) == IF v % 2 # 0 THEN v - 1 ELSE v

\* lines 57-66: the values int(w * scale) and int(h * scale) can take.
ScaledSide(x, y, w, h, mp, m) ==
    IF OverMaxDim(w, h, mp, m) THEN FloorScaled(x, m, Max(w, h))
    ELSE IF OverTarget(w, h, mp) THEN SqrtScaled(x, y, mp)
    ELSE {x}

ResizeInit ==
    /\ DateIdle
    /\ ImageIdle
    /\ QualityIdle
    /\ ProbeIdle
    /\ BatchIdle
    /\ RetentionIdle
    /\ ValidatorsIdle
    /\ EncodeIdle
    /\ PlanIdle
    /\ ipc = "resize"
    /\ img_w \in ImageSides
    /\ img_h \in ImageSides
    /\ megapixels \in MegapixelTargets
    /\ max_dim \in {AvifMaxDim, WebpMaxDim}
    /\ new_w = None
    /\ new_h = None

\* lines 43-105: the image opens, the dimensions are derived, and the image
\* is resized when they differ from its size (Image.resize raises ValueError
\* for a dimension of 0, which resize_image does not catch).
ResizeImage ==
    /\ ipc = "resize"
    /\ \E fw \in ScaledSide(img_w, img_h, img_w, img_h, megapixels, max_dim) :
       \E fh \in ScaledSide(img_h, img_w, img_w, img_h, megapixels, max_dim) :
          /\ new_w' = EvenDown(fw)
          /\ new_h' = EvenDown(fh)
          /\ ipc' = IF /\ <<EvenDown(fw), EvenDown(fh)>> # <<img_w, img_h>>
                       /\ (EvenDown(fw) = 0 \/ EvenDown(fh) = 0)
                    THEN "raised" ELSE "resized"
    /\ UNCHANGED <<img_w, img_h, megapixels, max_dim>>
    /\ UNCHANGED NotResize

\* lines 108-110: the image cannot be opened or saved; the original path is
\* returned and no dimension is derived.
ResizeFails ==
    /\ ipc = "resize"
    /\ ipc' = "original"
    /\ UNCHANGED <<img_w, img_h, megapixels, max_dim, new_w, new_h>>
    /\ UNCHANGED NotResize

ResizeNext ==
    \/ ResizeImage
    \/ ResizeFails

SpecResize == ResizeInit /\ [][ResizeNext]_vars

(***************************************************************************)
(* Properties of resize_image.                                             *)
(***************************************************************************)
\* The image needs scaling: it is over the megapixel target or over the
\* pixel ceiling.
NeedsScaling ==
    \/ img_w * img_h > megapixels * PixelsPerMegapixel
    \/ img_w > max_dim
    \/ img_h > max_dim

\* C13: for a source that needs scaling both derived dimensions are even and
\* both are at most the pixel ceiling of the library.
C13_ScaledDimensionsEvenUnderCeiling ==
    (ipc \in {"resized", "raised"} /\ NeedsScaling) =>
       /\ new_w % 2 = 0
       /\ new_h % 2 = 0
       /\ new_w <= max_dim
       /\ new_h <= max_dim
       /\ new_w <= img_w
       /\ new_h <= img_h

\* Witness of C13: an image under the megapixel target but wider than the
\* ceiling is brought down to the ceiling.
C13_Witness ==
    /\ ipc = "resized"
    /\ img_w > max_dim
    /\ img_w * img_h <= megapixels * PixelsPerMegapixel
    /\ new_w = max_dim
    /\ new_h > 0

(***************************************************************************)
(* encoder.py : get_duration (45-60), get_frame_rate (70-92) and           *)
(* get_video_audio_info (138-181), called at lines 195-198.                *)
(***************************************************************************)
\* What ffprobe prints for format=duration: a decimal number (kind "number",
\* in tenths of a second) or text float() rejects: nothing, "N/A", "1:30".
DurTexts ==
    {[kind |-> "number", n |-> n, text |-> ""] : n \in {0, 15, 600}}
       \cup {[kind |-> "text", n |-> 0, text |-> t] : t \in {"", "N/A", "1:30"}}

\* get_duration lines 57-60: float(stdout.strip()), 0.0 when float() raises.
GetDuration(t) == IF t.kind = "number" THEN t.n ELSE 0

\* The outputs for avg_frame_rate: those of FrTexts and a rational with a
\* zero denominator and a non-zero numerator.
ProbeFrTexts == FrTexts \cup {[kind |-> "ratio", num |-> 30, den |-> 0]}

\* The outcome of ffprobe for stream a:0: its exit code, whether it printed
\* anything (no audio stream: nothing), the codec_name line ("" when absent)
\* and the bit_rate line (None when absent or not an integer).
AudioOuts ==
    {[rc |-> r, printed |-> p, codec_name |-> c, bit_rate |-> b] :
        r \in {0, 1}, p \in BOOLEAN, c \in {"", "aac"}, b \in ProbedBitRates}

\* get_video_audio_info lines 155-174.
GetVideoAudioInfo(o) ==
    IF o.rc # 0 \/ ~o.printed
    THEN <<"Undefined", 0>>
    ELSE <<IF o.codec_name # "" THEN o.codec_name ELSE "Undefined",
           KbpsOf(o.bit_rate)>>

ProbeInit ==
    /\ DateIdle
    /\ ImageIdle
    /\ QualityIdle
    /\ BatchIdle
    /\ ResizeIdle
    /\ PlanIdle
    /\ RetentionIdle
    /\ ValidatorsIdle
    /\ EncodeIdle
    /\ qpc = "duration"
    /\ dur_out \in DurTexts
    /\ fr_out \in ProbeFrTexts
    /\ audio_out \in AudioOuts
    /\ probed_duration = None
    /\ probed_fps = None
    /\ orig_audio_props = None

\* line 195: duration = get_duration(vid).  Every failure of float() is
\* caught at line 59.
QDuration ==
    /\ qpc = "duration"
    /\ probed_duration' = GetDuration(dur_out)
    /\ qpc' = "frame_rate"
    /\ UNCHANGED <<dur_out, fr_out, audio_out, probed_fps, orig_audio_props>>
    /\ UNCHANGED NotProbe

\* line 197: input_fps = get_frame_rate(vid).  Every failure of split() and
\* float() is caught at line 90.
QFrameRate ==
    /\ qpc = "frame_rate"
    /\ probed_fps' = GetFrameRate(fr_out)
    /\ qpc' = "audio"
    /\ UNCHANGED <<dur_out, fr_out, audio_out, probed_duration, orig_audio_props>>
    /\ UNCHANGED NotProbe

\* line 198: orig_audio_props = get_video_audio_info(vid).
QAudio ==
    /\ qpc = "audio"
    /\ orig_audio_props' = GetVideoAudioInfo(audio_out)
    /\ qpc' = "done"
    /\ UNCHANGED <<dur_out, fr_out, audio_out, probed_duration, probed_fps>>
    /\ UNCHANGED NotProbe

ProbeNext ==
    \/ QDuration
    \/ QFrameRate
    \/ QAudio

SpecProbe == ProbeInit /\ [][ProbeNext]_vars

ScoreOutputs ==
    {[matched |-> TRUE, score |-> v] : v \in {0, 30, 45}}
       \cup {[matched |-> FALSE, score |-> 0]}

\* lines 63-64, 80-81, 96-97: float(m.group(1)) if m else 0.0.
GetScore(o) == IF o.matched THEN o.score ELSE 0

QualityInit ==
    /\ DateIdle
    /\ ImageIdle
    /\ BatchIdle
    /\ ResizeIdle
    /\ PlanIdle
    /\ RetentionIdle
    /\ ValidatorsIdle
    /\ EncodeIdle
    /\ ProbeIdle
    /\ kpc = "start"
    /\ kdirs_exist \in BOOLEAN
    /\ ktotal \in 0..MaxCompared
    /\ ~kdirs_exist => ktotal = 0
    /\ kidx = 0
    /\ all_results = <<>>
    /\ score_matched = <<>>
    /\ average_result = [sum |-> 0, len |-> 0]

\* lines 137-147: the directory check and the listing.
KStart ==
    /\ kpc = "start"
    /\ IF kdirs_exist
       THEN /\ kpc' = "loop"
            /\ kidx' = 1
       ELSE /\ kpc' = "exit1"
            /\ UNCHANGED kidx
    /\ UNCHANGED <<kdirs_exist, ktotal, all_results, score_matched,
                   average_result>>
    /\ UNCHANGED NotQuality

\* lines 153-158: no file of the base directory matches, next video.
KNoMatch ==
    /\ kpc = "loop"
    /\ kidx <= ktotal
    /\ kidx' = kidx + 1
    /\ UNCHANGED <<kpc, kdirs_exist, ktotal, all_results, score_matched,
                   average_result>>
    /\ UNCHANGED NotQuality

\* lines 161-181: the score is measured, appended and printed.
KMeasure ==
    /\ kpc = "loop"
    /\ kidx <= ktotal
    /\ \E o \in ScoreOutputs :
          /\ all_results' = Append(all_results, GetScore(o))
          /\ score_matched' = Append(score_matched, o.matched)
    /\ kidx' = kidx + 1
    /\ UNCHANGED <<kpc, kdirs_exist, ktotal, average_result>>
    /\ UNCHANGED NotQuality

RECURSIVE SumSeq(_)
SumSeq(q) == IF q = <<>> THEN 0 ELSE Head(q) + SumSeq(Tail(q))

\* lines 183-186: the average of all_results; ZeroDivisionError when the
\* list is empty.
KAverage ==
    /\ kpc = "loop"
    /\ kidx > ktotal
    /\ IF Len(all_results) = 0
       THEN /\ kpc' = "crash"
            /\ UNCHANGED average_result
       ELSE /\ kpc' = "done"
            /\ average_result' = [sum |-> SumSeq(all_results),
                                  len |-> Len(all_results)]
    /\ UNCHANGED <<kdirs_exist, ktotal, kidx, all_results, score_matched>>
    /\ UNCHANGED NotQuality

QualityNext ==
    \/ KStart
    \/ KNoMatch
    \/ KMeasure
    \/ KAverage

SpecQuality == QualityInit /\ [][QualityNext]_vars

\* C22 (as claimed): an unmatched score pattern gives 0.0, and that 0.0 is
\* a failed measurement for main: it is not among the scores that are
\* reported and averaged.
C22_UnmatchedScoreNotAveraged ==
    \A i \in 1..Len(all_results) :
       /\ ~score_matched[i] => all_results[i] = 0
       /\ score_matched[i]

(***************************************************************************)
(* photo_encoder.py : process_image (128-204) with the temporary file of   *)
(* resize_image (89-110), called for each image by main (291-306).         *)
(***************************************************************************)
\* The ways resize_image ends:
\*   "saved"     the PNG copy is written, its path is returned (line 105);
\*   "no_temp"   IOError / OSError before NamedTemporaryFile (the image
\*               does not open): the original path is returned (line 110);
\*   "temp_left" IOError / OSError of img.save (line 99) after
\*               NamedTemporaryFile(delete=False) created the file: the
\*               original path is returned (line 110);
\*   "raised"    another exception, which resize_image does not catch.
ResizeOutcomes == {"saved", "no_temp", "temp_left", "raised"}

\* line 189: the first temporary file is removed when resize_image returned
\* one.
FirstTempRemoved(t) == t # "path"

ImageInit ==
    /\ DateIdle
    /\ QualityIdle
    /\ ProbeIdle
    /\ BatchIdle
    /\ ResizeIdle
    /\ PlanIdle
    /\ RetentionIdle
    /\ ValidatorsIdle
    /\ EncodeIdle
    /\ xpc = "start"
    /\ ximages \in 1..MaxImages
    /\ xidx = 1
    /\ xsources = [i \in 1..ximages |-> "intact"]
    /\ xouts \in [1..ximages -> {"absent", "existing"}]
    /\ temp_dir = {}
    /\ tmp = "none"
    /\ encode_OK = "unset"

\* lines 134-136: an existing output file ends the call.
XStart ==
    /\ xpc = "start"
    /\ xpc' = IF xouts[xidx] # "absent" THEN "returned" ELSE "resize"
    /\ UNCHANGED <<ximages, xidx, xsources, xouts, temp_dir, tmp, encode_OK>>
    /\ UNCHANGED NotImage

\* line 139: tmp = resize_image(path, megapixels, max_dim).
XResize ==
    /\ xpc = "resize"
    /\ \E o \in ResizeOutcomes :
          /\ temp_dir' = IF o \in {"saved", "temp_left"}
                         THEN temp_dir \cup {<<xidx, "png">>} ELSE temp_dir
          /\ tmp' = IF o = "saved" THEN "png"
                    ELSE IF o = "raised" THEN "none" ELSE "path"
          /\ xpc' = IF o = "raised" THEN "raised" ELSE "mktemp"
    /\ UNCHANGED <<ximages, xidx, xsources, xouts, encode_OK>>
    /\ UNCHANGED NotImage

\* lines 142-147: the temporary output file is created.
XMakeTempOut ==
    /\ xpc = "mktemp"
    /\ temp_dir' = temp_dir \cup {<<xidx, "out">>}
    /\ xpc' = "encode"
    /\ UNCHANGED <<ximages, xidx, xsources, xouts, tmp, encode_OK>>
    /\ UNCHANGED NotImage

\* line 184: the encoder runs and writes the temporary output file;
\* run_command returns False for a non-zero exit code and lets every other
\* exception through (the program is not installed).
XEncode ==
    /\ xpc = "encode"
    /\ \/ /\ encode_OK' \in {"ok", "failed"}
          /\ xpc' = "cleanup"
       \/ /\ xpc' = "raised"
          /\ UNCHANGED encode_OK
    /\ UNCHANGED <<ximages, xidx, xsources, xouts, temp_dir, tmp>>
    /\ UNCHANGED NotImage

\* lines 189-195: the first temporary file is removed, and the second one
\* when the encode failed.
XCleanup ==
    /\ xpc = "cleanup"
    /\ LET kept == IF FirstTempRemoved(tmp)
                   THEN temp_dir \ {<<xidx, "png">>} ELSE temp_dir
       IN  /\ temp_dir' = IF encode_OK = "failed"
                          THEN kept \ {<<xidx, "out">>} ELSE kept
           /\ xsources' = IF FirstTempRemoved(tmp) /\ tmp # "png"
                          THEN [xsources EXCEPT ![xidx] = "deleted"]
                          ELSE xsources
    /\ xpc' = IF encode_OK = "failed" THEN "returned" ELSE "publish"
    /\ UNCHANGED <<ximages, xidx, xouts, tmp, encode_OK>>
    /\ UNCHANGED NotImage

\* lines 198-204: the temporary output file replaces out_file, and exiftool
\* copies the metadata of the source into it.
XPublish ==
    /\ xpc = "publish"
    /\ xouts' = [xouts EXCEPT ![xidx] = "written"]
    /\ temp_dir' = temp_dir \ {<<xidx, "out">>}
    /\ xpc' = "returned"
    /\ UNCHANGED <<ximages, xidx, xsources, tmp, encode_OK>>
    /\ UNCHANGED NotImage

\* photo_encoder.py main lines 291-294 / 303-306: the next image.
XNextImage ==
    /\ xpc = "returned"
    /\ xidx < ximages
    /\ xidx' = xidx + 1
    /\ tmp' = "none"
    /\ encode_OK' = "unset"
    /\ xpc' = "start"
    /\ UNCHANGED <<ximages, xsources, xouts, temp_dir>>
    /\ UNCHANGED NotImage

ImageNext ==
    \/ XStart
    \/ XResize
    \/ XMakeTempOut
    \/ XEncode
    \/ XCleanup
    \/ XPublish
    \/ XNextImage

SpecImage == ImageInit /\ [][ImageNext]_vars

\* C29 (as claimed): process_image leaves the source and a pre-existing
\* output file as they are; when it returns, no temporary file it created is
\* left in temp/, and after a failed encode nothing is at out_file.
C29_ProcessImageCleansUp ==
    [][/\ \A i \in 1..ximages :
             /\ xsources'[i] = "intact"
             /\ xouts[i] = "existing" => xouts'[i] = "existing"
       /\ xpc' = "returned" =>
             /\ \A k \in {"png", "out"} : <<xidx', k>> \notin temp_dir'
             /\ encode_OK' = "failed" => xouts'[xidx'] = "absent"]_vars

(***************************************************************************)
(* fix_date.py : set_video_date (103-142); fix_metadata.py lines 108-147   *)
(* and check_metadata.py lines 109-154 are the same code.                  *)
(***************************************************************************)
\* A test that looks at the temporary file only.
RemuxFailedNoFile(rc, t) == t = "absent"

\* line 134: res.returncode != 0 or not tmp_path.exists().
RemuxFailed(rc, t) == rc # 0 \/ t = "absent"

DateInit ==
    /\ ImageIdle
    /\ QualityIdle
    /\ ProbeIdle
    /\ BatchIdle
    /\ ResizeIdle
    /\ PlanIdle
    /\ RetentionIdle
    /\ ValidatorsIdle
    /\ EncodeIdle
    /\ dpc = "parse"
    /\ dtotal \in 1..MaxDated
    /\ didx = 1
    /\ originals = [i \in 1..dtotal |-> "original"]
    /\ tmp_files \in [1..dtotal -> {"absent", "present"}]
    /\ res_returncode = None
    /\ date_result = "none"

\* lines 110-122: the timestamp is parsed (ValueError leaves the function)
\* and the name of the temporary file is built.
DParse ==
    /\ dpc = "parse"
    /\ \E valid \in BOOLEAN : dpc' = IF valid THEN "remux" ELSE "raised"
    /\ UNCHANGED <<dtotal, didx, originals, tmp_files, res_returncode,
                   date_result>>
    /\ UNCHANGED NotDate

\* lines 125-133: ffmpeg -y remuxes path into tmp_path.  It exits with 0
\* after writing the file, or with another code, having opened the file or
\* not.
DRemux ==
    /\ dpc = "remux"
    /\ \E rc \in {0, 1} :
       \E written \in BOOLEAN :
          /\ rc = 0 => written
          /\ res_returncode' = rc
          /\ tmp_files' = IF written
                          THEN [tmp_files EXCEPT ![didx] = "present"]
                          ELSE tmp_files
    /\ dpc' = "check"
    /\ UNCHANGED <<dtotal, didx, originals, date_result>>
    /\ UNCHANGED NotDate

\* lines 134-137: a failed remux removes the temporary file and returns
\* False.
DCheck ==
    /\ dpc = "check"
    /\ IF RemuxFailed(res_returncode, tmp_files[didx])
       THEN /\ tmp_files' = [tmp_files EXCEPT ![didx] = "absent"]
            /\ date_result' = "False"
            /\ dpc' = "returned"
       ELSE /\ dpc' = "replace"
            /\ UNCHANGED <<tmp_files, date_result>>
    /\ UNCHANGED <<dtotal, didx, originals, res_returncode>>
    /\ UNCHANGED NotDate

\* lines 140-142: os.replace(tmp_path, path), the modification time, True.
DReplace ==
    /\ dpc = "replace"
    /\ originals' = [originals EXCEPT ![didx] = "replaced"]
    /\ tmp_files' = [tmp_files EXCEPT ![didx] = "absent"]
    /\ date_result' = "True"
    /\ dpc' = "returned"
    /\ UNCHANGED <<dtotal, didx, res_returncode>>
    /\ UNCHANGED NotDate

\* fix_date.py main lines 241-289: the next video.
DNextVideo ==
    /\ dpc = "returned"
    /\ didx < dtotal
    /\ didx' = didx + 1
    /\ res_returncode' = None
    /\ date_result' = "none"
    /\ dpc' = "parse"
    /\ UNCHANGED <<dtotal, originals, tmp_files>>
    /\ UNCHANGED NotDate

DateNext ==
    \/ DParse
    \/ DRemux
    \/ DCheck
    \/ DReplace
    \/ DNextVideo

SpecDate == DateInit /\ [][DateNext]_vars

\* C30: the original is replaced only in a step that follows a remux with
\* exit code 0 whose temporary file exists; a call whose remux failed
\* returns False with the temporary file removed and the original as it was.
C30_ReplaceOnlyAfterRemux ==
    [][/\ \A i \in 1..dtotal :
             originals'[i] # originals[i] =>
                (res_returncode = 0 /\ tmp_files[i] = "present")
       /\ (dpc' = "returned" /\ res_returncode' # 0) =>
             (/\ date_result' = "False"
              /\ tmp_files'[didx'] = "absent"
              /\ originals'[didx'] = "original")]_vars

\* A call has returned False after a failed remux that left a temporary
\* file, and the call before it replaced its original.
C30_Witness ==
    /\ dpc = "returned"
    /\ didx = 2
    /\ res_returncode = 1
    /\ date_result = "False"
    /\ tmp_files[2] = "absent"
    /\ originals[1] = "replaced"
    /\ originals[2] = "original"

(***************************************************************************)
(* encoder.py : main(), lines 343-385, run again and again over one        *)
(* directory.  A call of encode_video is one step whose outcomes are the   *)
(* ways encode_video ends.                                                 *)
(***************************************************************************)
\* The ways a call of encode_video ends without returning:
\*   "probe"     get_new_resolution raises RuntimeError / ValueError
\*               (lines 108-115), before ffmpeg is started;
\*   "popen"     subprocess.Popen raises (line 236);
\*   "exit"      ffmpeg exits with a non-zero code: CalledProcessError is
\*               caught at line 284 and line 286 raises TypeError;
\*   "read"      reading the progress stream raises: same path as "exit";
\*   "interrupt" KeyboardInterrupt, which line 284 does not catch.
RaiseKinds == {"probe", "popen", "exit", "read", "interrupt"}

\* What the job leaves at out_file for each of them: nothing where ffmpeg
\* never ran, and otherwise whatever ffmpeg had written, since encode_video
\* removes nothing; a "complete" file comes only from an exit code 0.
OutAfterRaise(kind) ==
    CASE kind \in {"probe", "popen"} -> {"absent"}
      [] kind = "exit" -> {"absent", "partial"}
      [] OTHER -> {"absent", "partial", "complete"}

\* The exit status of the interpreter: 1 for an uncaught exception, 130 for
\* an uncaught KeyboardInterrupt.
ExitAfterRaise(kind) == IF kind = "interrupt" THEN 130 ELSE 1

BatchInit ==
    /\ DateIdle
    /\ ImageIdle
    /\ QualityIdle
    /\ ProbeIdle
    /\ RetentionIdle
    /\ ValidatorsIdle
    /\ EncodeIdle
    /\ PlanIdle
    /\ ResizeIdle
    /\ bpc = "start"
    /\ base_is_dir \in BOOLEAN
    /\ \E n \in 0..MaxBatch :
          /\ videos = [i \in 1..n |-> i]
          /\ outs = [i \in 1..n |-> "absent"]
          /\ ~base_is_dir => n = 0
    /\ bidx = 0
    /\ skipped = {}
    /\ failed = {}
    /\ exit_code = None
    /\ runs = 1

\* lines 355-372: directory check, listing, empty check, output directory.
BStart ==
    /\ bpc = "start"
    /\ IF ~base_is_dir
       THEN /\ bpc' = "exited"
            /\ exit_code' = 1
            /\ UNCHANGED bidx
       ELSE IF Len(videos) = 0
       THEN /\ bpc' = "exited"
            /\ exit_code' = 0
            /\ UNCHANGED bidx
       ELSE /\ bpc' = "loop"
            /\ bidx' = 1
            /\ UNCHANGED exit_code
    /\ UNCHANGED <<base_is_dir, videos, outs, skipped, failed, runs>>
    /\ UNCHANGED NotBatch

\* lines 375-383: out_file exists, the video is skipped.
BSkip ==
    /\ bpc = "loop"
    /\ bidx <= Len(videos)
    /\ outs[videos[bidx]] # "absent"
    /\ skipped' = skipped \cup {videos[bidx]}
    /\ bidx' = bidx + 1
    /\ UNCHANGED <<bpc, base_is_dir, videos, outs, failed, exit_code, runs>>
    /\ UNCHANGED NotBatch

\* line 385: encode_video returns ([OK], exit code 0 of ffmpeg).
BEncodeReturns ==
    /\ bpc = "loop"
    /\ bidx <= Len(videos)
    /\ outs[videos[bidx]] = "absent"
    /\ outs' = [outs EXCEPT ![videos[bidx]] = "complete"]
    /\ bidx' = bidx + 1
    /\ UNCHANGED <<bpc, base_is_dir, videos, skipped, failed, exit_code, runs>>
    /\ UNCHANGED NotBatch

\* line 385: encode_video raises; main has no handler, the interpreter
\* prints the traceback and exits.
BEncodeRaises ==
    /\ bpc = "loop"
    /\ bidx <= Len(videos)
    /\ outs[videos[bidx]] = "absent"
    /\ \E kind \in RaiseKinds :
          /\ \E o \in OutAfterRaise(kind) :
                outs' = [outs EXCEPT ![videos[bidx]] = o]
          /\ exit_code' = ExitAfterRaise(kind)
    /\ failed' = failed \cup {videos[bidx]}
    /\ bpc' = "exited"
    /\ UNCHANGED <<base_is_dir, videos, bidx, skipped, runs>>
    /\ UNCHANGED NotBatch

\* line 375: the for loop is exhausted, main returns.
BFinish ==
    /\ bpc = "loop"
    /\ bidx > Len(videos)
    /\ bpc' = "exited"
    /\ exit_code' = 0
    /\ UNCHANGED <<base_is_dir, videos, bidx, outs, skipped, failed, runs>>
    /\ UNCHANGED NotBatch

\* The operator runs encoder.py again with the same arguments: the output
\* directory and its files are as the runs before left them.
BRerun ==
    /\ bpc = "exited"
    /\ runs < MaxRuns
    /\ runs' = runs + 1
    /\ bpc' = "start"
    /\ bidx' = 0
    /\ skipped' = {}
    /\ failed' = {}
    /\ exit_code' = None
    /\ UNCHANGED <<base_is_dir, videos, outs>>
    /\ UNCHANGED NotBatch

BatchNext ==
    \/ BStart
    \/ BSkip
    \/ BEncodeReturns
    \/ BEncodeRaises
    \/ BFinish
    \/ BRerun

SpecBatch == BatchInit /\ [][BatchNext]_vars

(***************************************************************************)
(* Properties of the batch loop.                                           *)
(***************************************************************************)
\* C16 (as claimed): a failure while one file is processed does not end the
\* batch: a run over an existing directory ends only after the loop has gone
\* through every video of the list.
C16_FailureDoesNotAbortBatch ==
    (bpc = "exited" /\ base_is_dir /\ Len(videos) > 0) => bidx > Len(videos)

\* C17 (as claimed): the exit code is 0 on full success, and non-zero when
\* the input directory is missing and when it holds no eligible file.
C17_ExitCodes ==
    bpc = "exited" =>
       /\ ~base_is_dir => exit_code # 0
       /\ (base_is_dir /\ Len(videos) = 0) => exit_code # 0
       /\ (base_is_dir /\ Len(videos) > 0 /\ failed = {}) => exit_code = 0

\* C19 (as claimed): a run skips a video as already encoded only when its
\* output file came from an encode that exited with code 0.
C19_SkipOnlyFinishedOutputs ==
    \A v \in skipped : outs[v] = "complete"

(***************************************************************************)
(* Properties of encode_video.                                             *)
(***************************************************************************)
\* C1 (as claimed): when encode_video ends in failure (non-zero exit code or
\* an exception while the process is driven) no file exists at out_file.
C1_NoOutputAfterFailure ==
    epc \in {"returned", "raised"} /\ result = "error" => out_file = "absent"

\* C18 (as claimed): after a cancellation of the job no encoder process is
\* alive and no file is at out_file.
C18_CancelKillsAndCleans ==
    cancelled => (proc # "running" /\ out_file = "absent")

\* The lines the runner is to skip: no '=', a key that is not fps, bitrate
\* or out_time_ms, or a value of fps / out_time_ms that is no number.  (Every
\* text is a bitrate: line 257 stores val as it is.)
SkippedLines ==
    {l \in ProgressLines :
        \/ l = NoEquals
        \/ l.key \in {"speed", "progress"} /\ l # ProgressEnd
        \/ l.key = "fps" /\ l.val.kind = "text"
        \/ l.key = "out_time_ms" /\ l.val.kind \in {"text", "dec"}}

\* C24 (as claimed): the percent shown stays within [0,100] and never
\* decreases from one out_time_ms update to the next, whatever values the
\* updates carry.
C24_PercentBoundedMonotone ==
    [][/\ pct_num' >= 0
       /\ pct_num' <= 100 * duration
       /\ pct_num' >= pct_num]_vars

\* C25 (as claimed): every out_time_ms update shows
\* min(100, 100 * seconds / duration), and with a duration of 0 every percent
\* of the job, the one of the final status line included, is 0.
C25_PercentFormulaZeroDuration ==
    [][/\ \A n \in (0 - 1)..MaxOutTime :
             EConsume([key |-> "out_time_ms", val |-> IntVal(n)]) =>
                pct_num' = IF duration = 0 THEN 0
                           ELSE Min(100 * duration, 100 * n)
       /\ duration = 0 => (pct_num' = 0 /\ final_pct' \in {None, 0})]_vars

\* C26 (as claimed): whatever line other than progress=end is consumed, the
\* parser stays in READING; the loop is left only by progress=end or by the
\* end of the stream.
C26_LeavesReadingOnlyOnEnd ==
    [][/\ \A l \in ProgressLines \ {ProgressEnd} :
             EConsume(l) => epc' = "reading"
       /\ (epc = "reading" /\ epc' # "reading" /\ ~cancelled') =>
             (EConsume(ProgressEnd) \/ EReadEOF)]_vars

\* C27 (as claimed): a skipped line changes neither the last fps, nor the
\* last bitrate, nor the last percent.
C27_SkippedLineNoEffect ==
    [][\A l \in SkippedLines :
          EConsume(l) => (fps' = fps /\ bitrate' = bitrate /\ pct_num' = pct_num)]_vars

(***************************************************************************)
(* Properties of check_integrity.                                          *)
(***************************************************************************)
\* The time check of the current video has just run.
TimeCheckDone == vpc = "decode" /\ mode \in TimeModes

C6_DurationWithinMarginInclusive ==
    /\ TimeCheckDone /\ dur_secondary # None /\ dur_original # None
          => (InList(vids_To_Delete, vid)
                <=> ~(/\ dur_secondary - dur_original <= margin
                      /\ dur_original - dur_secondary <= margin))
    /\ vpc = "start" =>
          /\ \A ds \in Durations, do \in Durations, m \in 0..MaxDurDelta :
                DurationOk(ds, do, m) <=> (ds - do <= m /\ do - ds <= m)
          /\ DurationOk(1200, 1203, 5)
          /\ ~DurationOk(1200, 1203, 2)

\* Witness of C6: the difference is exactly the margin and the candidate
\* passed.
C6_Witness ==
    /\ TimeCheckDone
    /\ dur_secondary # None
    /\ dur_original # None
    /\ Abs(dur_secondary - dur_original) = margin
    /\ ~InList(vids_To_Delete, vid)

\* C7 (as claimed): for each selectable mode the candidate is off the
\* to-delete list iff every check the mode requests passed, and a check the
\* mode requests is run.
C7_VerdictIsAndOfRequestedChecks ==
    vpc = "next" =>
       LET timeRequested == mode \in {"time", "both"}
           decodeRequested == mode \in {"decode", "both"}
       IN  /\ ~InList(vids_To_Delete, vid)
                <=> /\ timeRequested
                          => TimeVerdict(dur_secondary, dur_original) # "delete"
                    /\ decodeRequested => vid_decodable
           /\ decodeRequested => ok_decode # "unset"

(***************************************************************************)
(* Properties of the deleting scripts.                                     *)
(***************************************************************************)
\* C2 (as claimed): check_integrity, check_size, size_check and
\* select_best_del delete a file only after the operator has answered a
\* separate confirmation prompt with "y".
C2_DeleteOnlyAfterConfirmation ==
    /\ vpc = "delete_files" => confirm = "y"
    /\ rpc \in {"unlink_orig", "unlink_av1"} => confirm = "y"

\* C28 (as claimed): check_integrity and check_size leave the base
\* directory as it is, and remove a file of the secondary directory only when
\* it is on the list of this run, the delete flag is set and the operator
\* typed "y"; otherwise the file system is left unchanged.
C28_DeleteOnlyListedOnAnswerY ==
    [][(vscript \in {"check_integrity", "check_size"}) =>
          (/\ base_ext' = base_ext
           /\ \A v \in Videos :
                 secondary'[v] # secondary[v] =>
                    (/\ secondary'[v] = "absent"
                     /\ InList(vids_To_Delete, v)
                     /\ delete
                     /\ answer = "y"))
      ]_vars

\* C28 (amended): the same, for an answer that is "y" after strip() and
\* lower(): "Y" and " y " confirm the deletion too.
C28_DeleteOnlyListedOnConfirmY ==
    [][(vscript \in {"check_integrity", "check_size"}) =>
          (/\ base_ext' = base_ext
           /\ \A v \in Videos :
                 secondary'[v] # secondary[v] =>
                    (/\ secondary'[v] = "absent"
                     /\ InList(vids_To_Delete, v)
                     /\ delete
                     /\ StripLower(answer) = "y"))
      ]_vars

\* A validator has deleted a listed file after the operator confirmed, and
\* has kept a file that was not listed.
C28_Witness ==
    /\ vscript \in {"check_integrity", "check_size"}
    /\ vpc = "done"
    /\ delete
    /\ confirm = "y"
    /\ \E v \in Videos : InList(vids_To_Delete, v) /\ secondary[v] = "absent"
    /\ \E v \in Videos : InList(coded_videos, v) /\ secondary[v] # "absent"

\* C20 (as claimed): size_check compares each candidate with the original
\* whose stem is the candidate's own stem without its known suffix; the stem
\* looked up is never the one an earlier iteration derived.
C20_OriginalFromOwnStem ==
    (vscript = "size_check" /\ vpc = "next") => orig_stem = vid

\* C9 (as claimed): a candidate whose original is missing is kept: the
\* retention step moves it to final_vid/, and the size and duration checks do
\* not put it on the to-delete list.
C9_MissingOriginalKeepsCandidate ==
    /\ rpc \in {"loop", "done"} /\ idx > 1 /\ size_orig = None
          => fs["final_vid"][av1] = FileOf("vid_av1", av1, size_av1)
    /\ vpc = "next" /\ base_ext[vid] = "none"
          => ~InList(vids_To_Delete, vid)

(***************************************************************************)
(* Properties of the retention step.                                       *)
(***************************************************************************)
\* The file created at (src, k) is still somewhere on disk.
Survives(src, k) ==
    \E d \in Dirs : \E j \in Levels : fs[d][j].src = src /\ fs[d][j].name = k

\* The path the move of the current iteration writes to.
MoveTarget == IF size_orig = None \/ CandidateWins(size_av1, size_orig) THEN av1 ELSE orig

\* An iteration with both files present has just made its move.
DecidedPair ==
    /\ rpc \in {"loop", "done"}
    /\ idx > 1
    /\ size_orig # None

CandidateKept == fs["final_vid"][av1] = FileOf("vid_av1", av1, size_av1)
OriginalKept == fs["final_vid"][orig] = FileOf("base", orig, size_orig)

\* C3 (as claimed): a file is unlinked only when its counterpart is already
\* intact in final_vid/, and for every candidate processed so far the
\* candidate or its original still exists on disk.
C3_PairNeverLost ==
    /\ rpc = "unlink_orig" => CandidateKept
    /\ rpc = "unlink_av1" => OriginalKept
    /\ \A i \in 1..Len(av1_files) :
          i <= idx =>
             \/ Survives("vid_av1", av1_files[i])
             \/ Survives("base", StripSuffix(av1_files[i]))

\* C4 (as claimed): every move of the retention step targets a path of
\* final_vid/ at which no file exists.
C4_MoveNeverOverwrites ==
    rpc = "decide" => ~Exists(fs, "final_vid", MoveTarget)

\* C8: when original and candidate both exist, the candidate is the file kept
\* in final_vid/ iff its size is strictly smaller than the original's;
\* otherwise (tie included) the original is kept, and select_best_del has
\* then removed the loser.
C8_StrictlySmallerCandidateWins ==
    DecidedPair =>
       /\ CandidateKept <=> size_av1 < size_orig
       /\ OriginalKept <=> size_av1 >= size_orig
       /\ rscript = "select_best_del" /\ size_av1 < size_orig
             => ~Exists(fs, "base", orig)
       /\ rscript = "select_best_del" /\ size_av1 >= size_orig
             => ~Exists(fs, "vid_av1", av1)

\* Witness of C8: a tie was decided and the original is the file kept.
C8_Witness ==
    /\ DecidedPair
    /\ size_av1 = size_orig
    /\ OriginalKept
    /\ ~CandidateKept

\* C10 (as claimed): the retention step changes the file system (move or
\* unlink) only for a candidate whose validation has completed.
C10_TouchOnlyAfterValidation ==
    [][fs' # fs => av1 \in validated]_vars

=============================================================================
